---------------------------- MODULE Spec2Model ----------------------------
(***************************************************************************)
(* Backtesting engine of AITradePro (src/backend/app): domain model,       *)
(* portfolio manager, brokers, execution model and the BacktestRunner      *)
(* loop.  Python floats are modelled as exact rationals [n, d] in lowest   *)
(* terms with d > 0; None is a sentinel of the same shape as the value it  *)
(* replaces.                                                               *)
(***************************************************************************)
EXTENDS Integers, Sequences, FiniteSets, TLC

\* ------------------------------------------------------------------ bounds
MaxCalls == 3        \* PortfolioManager API calls in one behaviour of SpecPM
MaxBrokerCalls == 4  \* broker API calls in one behaviour of SpecBroker
MaxBars == 3         \* bars a feed yields before it is exhausted
MaxExecCalls == 1    \* calls made on a slippage or execution model in one behaviour
MaxFeedBars == 5     \* bars the feed of a built-in strategy's run yields at most
MarkPeriod == 2      \* the loop marks every 100th bar (simulator.py); scaled down
MaxPoints == 5        \* equity points of a curve handed to the analytics
MaxReports == 2       \* strategy reports handed to compare_strategies
MaxClockBars == 2     \* bars of one symbol's source of a MultiSymbolClock
MaxIdleTicks == 1     \* ticks made on a clock after it returned None
MaxSmaBars == 4       \* bars given to SmaCrossStrategy.on_bar by a direct caller
MaxResets == 1        \* reset() calls made on a clock
MaxTrades == 4        \* trade counts handed to BacktestRunResponse
MaxRunBars == 3       \* bars of the feed of each of two runs side by side
                     \* so that the periodic mark happens within MaxBars

\* ------------------------------------------------------------- arithmetic
Abs(x) == IF x < 0 THEN -x ELSE x

RECURSIVE Gcd(_, _)
Gcd(a, b) == IF b = 0 THEN a ELSE Gcd(b, a % b)

Rat(n, d) ==
    LET g == Gcd(Abs(n), Abs(d))
        s == IF d < 0 THEN -1 ELSE 1
    IN  [n |-> (s * n) \div g, d |-> Abs(d) \div g]

R(i) == [n |-> i, d |-> 1]
Zero == R(0)
Lcm(a, b) == (a \div Gcd(a, b)) * b
RAdd(a, b) ==
    LET l == Lcm(a.d, b.d)
    IN  Rat(a.n * (l \div a.d) + b.n * (l \div b.d), l)
RNeg(a) == [n |-> -a.n, d |-> a.d]
RSub(a, b) == RAdd(a, RNeg(b))
RMul(a, b) ==
    LET g1 == Gcd(Abs(a.n), b.d)
        g2 == Gcd(Abs(b.n), a.d)
    IN  Rat((a.n \div g1) * (b.n \div g2), (a.d \div g2) * (b.d \div g1))
RDiv(a, b) == RMul(a, Rat(b.d, b.n))
RAbs(a) == [n |-> Abs(a.n), d |-> a.d]
RSign(a) == IF a.n > 0 THEN 1 ELSE IF a.n < 0 THEN -1 ELSE 0
RLt(a, b) == RSign(RSub(a, b)) < 0
RLe(a, b) == RSign(RSub(a, b)) <= 0

\* None for an Optional[float] and for an Optional[datetime]
NoneR == [n |-> 0, d |-> 0]
NoneTs == -1

\* ----------------------------------------------------------------- domain
Symbols == {"A", "B"}
Sides == {"BUY", "SELL"}
PriceSet == {R(1), R(50)}
QtySet == {R(1), R(2)}
TsSet == {1, 2}

\* PortfolioManager.__init__ default initial_cash
InitialCash == 10000

\* PaperBroker.__init__ default order_delay_bars
PaperDelay == 1

\* PercentageFeeModel.__init__ default percentage (0.1 = 0.1%)
DefaultFeePct == Rat(1, 10)

\* Fill.notional
Notional(f) == RMul(f.qty, f.price)

\* faulty variant: the fee is added to the proceeds of a sell
NetCashFlow_FeeSign(f) ==
    IF f.side = "BUY" THEN RNeg(RAdd(Notional(f), f.fee))
    ELSE RAdd(Notional(f), f.fee)

\* Fill.net_cash_flow
NetCashFlow(f) ==
    IF f.side = "BUY" THEN RNeg(RAdd(Notional(f), f.fee))
    ELSE RSub(Notional(f), f.fee)

\* PercentageFeeModel.compute / NoFees.compute
FeeCompute(model, qty, price) ==
    IF model = "percentage"
    THEN RMul(RMul(qty, price), RDiv(DefaultFeePct, R(100)))
    ELSE Zero

\* Position(symbol): the empty position get_position creates
NewPosition(sym) == [symbol |-> sym, qty |-> Zero, avg_price |-> Zero]

\* faulty variant: the weighted average loses its abs()
PositionUpdate_NoAbs(pos, f) ==
    LET fill_qty == IF f.side = "BUY" THEN f.qty ELSE RNeg(f.qty)
        new_qty == RAdd(pos.qty, fill_qty)
    IN  IF RLe(RMul(pos.qty, new_qty), Zero)
        THEN [pos EXCEPT !.qty = new_qty,
                         !.avg_price = IF new_qty # Zero THEN f.price ELSE Zero]
        ELSE LET total_cost == RAdd(RMul(pos.qty, pos.avg_price),
                                    RMul(fill_qty, f.price))
             IN  [pos EXCEPT !.qty = new_qty,
                             !.avg_price = IF new_qty # Zero
                                           THEN RDiv(total_cost, new_qty)
                                           ELSE Zero]

\* Position.update
PositionUpdate(pos, f) ==
    LET fill_qty == IF f.side = "BUY" THEN f.qty ELSE RNeg(f.qty)
        new_qty == RAdd(pos.qty, fill_qty)
    IN  IF RLe(RMul(pos.qty, new_qty), Zero)
        THEN [pos EXCEPT !.qty = new_qty,
                         !.avg_price = IF new_qty # Zero THEN f.price ELSE Zero]
        ELSE LET total_cost == RAdd(RMul(pos.qty, pos.avg_price),
                                    RMul(fill_qty, f.price))
             IN  [pos EXCEPT !.qty = new_qty,
                             !.avg_price = IF new_qty # Zero
                                           THEN RAbs(RDiv(total_cost, new_qty))
                                           ELSE Zero]

\* dict helpers: a dict is a function whose DOMAIN is its key set
DictPut(d, k, v) == [x \in (DOMAIN d) \cup {k} |-> IF x = k THEN v ELSE d[x]]
DictDel(d, k) == [x \in (DOMAIN d) \ {k} |-> d[x]]
EmptyDict == [x \in {} |-> Zero]

\* Portfolio.get_position (creates the entry when missing)
GetPosition(positions, sym) ==
    IF sym \in DOMAIN positions THEN positions ELSE DictPut(positions, sym, NewPosition(sym))

\* Portfolio.apply_fill
PortfolioApplyFill(pf, f) ==
    LET withPos == GetPosition(pf.positions, f.symbol)
        position == PositionUpdate(withPos[f.symbol], f)
    IN  [pf EXCEPT !.cash = RAdd(pf.cash, NetCashFlow(f)),
                   !.positions = IF position.qty = Zero
                                 THEN DictDel(withPos, f.symbol)
                                 ELSE DictPut(withPos, f.symbol, position)]

RECURSIVE SumValues(_, _, _)
SumValues(positions, prices, keys) ==
    IF keys = {} THEN Zero
    ELSE LET k == CHOOSE x \in keys : TRUE
             px == IF k \in DOMAIN prices THEN prices[k] ELSE positions[k].avg_price
         IN  RAdd(RMul(positions[k].qty, px),
                  SumValues(positions, prices, keys \ {k}))

\* faulty variant: positions are valued at their average entry price
PortfolioMarkToMarket_BookValue(pf, prices) ==
    [pf EXCEPT !.equity = RAdd(pf.cash, SumValues(pf.positions, EmptyDict, DOMAIN pf.positions))]

\* Portfolio.mark_to_market
PortfolioMarkToMarket(pf, prices) ==
    [pf EXCEPT !.equity = RAdd(pf.cash, SumValues(pf.positions, prices, DOMAIN pf.positions))]

\* ------------------------------------------------------------------ trades
\* faulty variant: every trade is opened as a long one
NewTrade_AlwaysBuy(sym, ts, price, qty, fee, side) ==
    [symbol |-> sym, entry_ts |-> ts, entry_price |-> price, entry_qty |-> qty,
     exit_ts |-> NoneTs, exit_price |-> NoneR, exit_qty |-> NoneR,
     pnl |-> Zero, return_pct |-> Zero, fees |-> fee, side |-> "BUY"]

\* Trade(...) as the dataclass constructs it
NewTrade(sym, ts, price, qty, fee, side) ==
    [symbol |-> sym, entry_ts |-> ts, entry_price |-> price, entry_qty |-> qty,
     exit_ts |-> NoneTs, exit_price |-> NoneR, exit_qty |-> NoneR,
     pnl |-> Zero, return_pct |-> Zero, fees |-> fee, side |-> side]

\* faulty variant: the exit fee is left out of the trade's fees
TradeClose_NoExitFee(t, exit_ts, exit_price, exit_qty, exit_fee) ==
    LET pnl == IF t.side = "BUY"
               THEN RSub(RMul(RSub(exit_price, t.entry_price), t.entry_qty),
                         RAdd(t.fees, exit_fee))
               ELSE RSub(RMul(RSub(t.entry_price, exit_price), t.entry_qty),
                         RAdd(t.fees, exit_fee))
    IN  [t EXCEPT !.exit_ts = exit_ts, !.exit_price = exit_price,
                  !.exit_qty = exit_qty, !.pnl = pnl]

\* Trade.close
TradeClose(t, exit_ts, exit_price, exit_qty, exit_fee) ==
    LET fees == RAdd(t.fees, exit_fee)
        pnl == IF t.side = "BUY"
               THEN RSub(RMul(RSub(exit_price, t.entry_price), t.entry_qty), fees)
               ELSE RSub(RMul(RSub(t.entry_price, exit_price), t.entry_qty), fees)
        entry_value == RMul(t.entry_price, t.entry_qty)
    IN  [t EXCEPT !.exit_ts = exit_ts, !.exit_price = exit_price,
                  !.exit_qty = exit_qty, !.fees = fees, !.pnl = pnl,
                  !.return_pct = IF entry_value # Zero
                                 THEN RMul(RDiv(pnl, entry_value), R(100))
                                 ELSE Zero]

\* _open_trades is an insertion-ordered dict keyed by symbol: a sequence of
\* trades with pairwise different symbols
RemoveAt(s, i) == SubSeq(s, 1, i - 1) \o SubSeq(s, i + 1, Len(s))
OpenIndex(open, sym) ==
    IF \E i \in 1..Len(open) : open[i].symbol = sym
    THEN CHOOSE i \in 1..Len(open) : open[i].symbol = sym
    ELSE 0

\* faulty variant: a partial close books the closed part as a trade
TrackTrade_PartialEmits(pm, f) ==
    LET i == OpenIndex(pm.open_trades, f.symbol)
    IN  IF i = 0
        THEN IF f.side = "BUY"
             THEN [pm EXCEPT !.open_trades =
                      Append(@, NewTrade(f.symbol, f.ts, f.price, f.qty, f.fee, "BUY"))]
             ELSE pm
        ELSE LET open_trade == pm.open_trades[i]
             IN  IF open_trade.side = f.side
                 THEN LET total_qty == RAdd(open_trade.entry_qty, f.qty)
                          weighted_price ==
                              RDiv(RAdd(RMul(open_trade.entry_price, open_trade.entry_qty),
                                        RMul(f.price, f.qty)), total_qty)
                      IN  [pm EXCEPT !.open_trades[i] =
                               [open_trade EXCEPT !.entry_price = weighted_price,
                                                  !.entry_qty = total_qty,
                                                  !.fees = RAdd(open_trade.fees, f.fee)]]
                 ELSE IF RLe(open_trade.entry_qty, f.qty)
                      THEN LET closed == TradeClose(open_trade, f.ts, f.price,
                                                    open_trade.entry_qty, f.fee)
                               remaining_qty == RSub(f.qty, open_trade.entry_qty)
                               rest == RemoveAt(pm.open_trades, i)
                           IN  [pm EXCEPT
                                  !.trades = Append(@, closed),
                                  !.open_trades =
                                      IF RLt(Zero, remaining_qty)
                                      THEN Append(rest, NewTrade(f.symbol, f.ts, f.price,
                                                                 remaining_qty, Zero, f.side))
                                      ELSE rest]
                      ELSE [pm EXCEPT
                              !.trades = Append(@, TradeClose(open_trade, f.ts, f.price,
                                                              f.qty, f.fee)),
                              !.open_trades[i].entry_qty = RSub(@, f.qty)]

\* PortfolioManager._track_trade
TrackTrade(pm, f) ==
    LET i == OpenIndex(pm.open_trades, f.symbol)
    IN  IF i = 0
        THEN IF f.side = "BUY"
             THEN [pm EXCEPT !.open_trades =
                      Append(@, NewTrade(f.symbol, f.ts, f.price, f.qty, f.fee, "BUY"))]
             ELSE pm
        ELSE LET open_trade == pm.open_trades[i]
             IN  IF open_trade.side = f.side
                 THEN LET total_qty == RAdd(open_trade.entry_qty, f.qty)
                          weighted_price ==
                              RDiv(RAdd(RMul(open_trade.entry_price, open_trade.entry_qty),
                                        RMul(f.price, f.qty)), total_qty)
                      IN  [pm EXCEPT !.open_trades[i] =
                               [open_trade EXCEPT !.entry_price = weighted_price,
                                                  !.entry_qty = total_qty,
                                                  !.fees = RAdd(open_trade.fees, f.fee)]]
                 ELSE IF RLe(open_trade.entry_qty, f.qty)
                      THEN LET closed == TradeClose(open_trade, f.ts, f.price,
                                                    open_trade.entry_qty, f.fee)
                               remaining_qty == RSub(f.qty, open_trade.entry_qty)
                               rest == RemoveAt(pm.open_trades, i)
                           IN  [pm EXCEPT
                                  !.trades = Append(@, closed),
                                  !.open_trades =
                                      IF RLt(Zero, remaining_qty)
                                      THEN Append(rest, NewTrade(f.symbol, f.ts, f.price,
                                                                 remaining_qty, Zero, f.side))
                                      ELSE rest]
                      ELSE [pm EXCEPT !.open_trades[i].entry_qty = RSub(@, f.qty)]

\* faulty variant: the point's equity is the value of the positions alone
EquityPointOf_NoCash(ts, pf) ==
    [ts |-> ts, equity |-> RSub(pf.equity, pf.cash), cash |-> pf.cash,
     positions_value |-> RSub(pf.equity, pf.cash)]

\* EquityPoint appended by apply_fill and mark_to_market
EquityPointOf(ts, pf) ==
    [ts |-> ts, equity |-> pf.equity, cash |-> pf.cash,
     positions_value |-> RSub(pf.equity, pf.cash)]

\* PortfolioManager.apply_fill
PMApplyFill(pm, f, prices) ==
    LET p1 == [pm EXCEPT !.portfolio = PortfolioApplyFill(pm.portfolio, f)]
        p2 == TrackTrade(p1, f)
        p3 == [p2 EXCEPT !.portfolio = PortfolioMarkToMarket(p2.portfolio, prices)]
    IN  [p3 EXCEPT !.equity_curve = Append(@, EquityPointOf(f.ts, p3.portfolio))]

\* PortfolioManager.mark_to_market
PMMarkToMarket(pm, ts, prices) ==
    LET p1 == [pm EXCEPT !.portfolio = PortfolioMarkToMarket(pm.portfolio, prices)]
    IN  [p1 EXCEPT !.equity_curve = Append(@, EquityPointOf(ts, p1.portfolio))]

\* faulty variant: the force-close liquidates, crediting the trade's value to
\* the cash and dropping the position
RECURSIVE CloseAll_Liquidates(_, _, _, _)
CloseAll_Liquidates(pm, ts, prices, todo) ==
    IF todo = <<>> THEN pm
    ELSE LET trade == Head(todo)
             i == OpenIndex(pm.open_trades, trade.symbol)
         IN  IF trade.symbol \in DOMAIN prices
             THEN CloseAll_Liquidates(
                      [pm EXCEPT
                         !.trades = Append(@, TradeClose(trade, ts, prices[trade.symbol],
                                                         trade.entry_qty, Zero)),
                         !.open_trades = RemoveAt(@, i),
                         !.portfolio.cash =
                             RAdd(@, RMul(prices[trade.symbol], trade.entry_qty)),
                         !.portfolio.positions = DictDel(@, trade.symbol)],
                      ts, prices, Tail(todo))
             ELSE CloseAll_Liquidates(pm, ts, prices, Tail(todo))

\* PortfolioManager.close_all_positions: iterates list(_open_trades.items())
RECURSIVE CloseAll(_, _, _, _)
CloseAll(pm, ts, prices, todo) ==
    IF todo = <<>> THEN pm
    ELSE LET trade == Head(todo)
             i == OpenIndex(pm.open_trades, trade.symbol)
         IN  IF trade.symbol \in DOMAIN prices
             THEN CloseAll([pm EXCEPT
                              !.trades = Append(@, TradeClose(trade, ts, prices[trade.symbol],
                                                              trade.entry_qty, Zero)),
                              !.open_trades = RemoveAt(@, i)],
                           ts, prices, Tail(todo))
             ELSE CloseAll(pm, ts, prices, Tail(todo))

PMCloseAllPositions(pm, ts, prices) == CloseAll(pm, ts, prices, pm.open_trades)

\* --------------------------------------------------------------- execution
\* the None a failed execute returns
NoFill == [order_id |-> 0, ts |-> NoneTs, symbol |-> "A", side |-> "BUY",
           qty |-> NoneR, price |-> NoneR, fee |-> NoneR]

\* Order(...) as the dataclass constructs it: status PENDING
NewOrder(id, ts, sym, side, qty, type, limit_price) ==
    [id |-> id, ts |-> ts, symbol |-> sym, side |-> side, qty |-> qty,
     type |-> type, limit_price |-> limit_price, status |-> "pending"]

\* Bar(...): open = close in every bar of the model
NewBar(ts, sym, low, high, close, volume) ==
    [ts |-> ts, symbol |-> sym, open |-> close, high |-> high, low |-> low,
     close |-> close, volume |-> volume]

\* Bar.__post_init__
BarValid(b) ==
    /\ ~RLt(b.high, b.low)
    /\ ~RLt(b.high, b.open) /\ ~RLt(b.high, b.close)
    /\ ~RLt(b.open, b.low) /\ ~RLt(b.close, b.low)
    /\ ~RLt(b.volume, Zero)

\* faulty variant: a limit order needs the bar to go strictly through its price
GetBasePrice_Strict(bar, order) ==
    IF order.type = "market" THEN bar.close
    ELSE IF order.type = "limit"
         THEN IF order.limit_price = NoneR THEN NoneR
              ELSE IF order.side = "BUY"
                   THEN IF RLt(bar.low, order.limit_price) THEN order.limit_price ELSE NoneR
                   ELSE IF RLt(order.limit_price, bar.high) THEN order.limit_price ELSE NoneR
         ELSE NoneR

\* ExecutionModel._get_base_price
GetBasePrice(bar, order) ==
    IF order.type = "market" THEN bar.close
    ELSE IF order.type = "limit"
         THEN IF order.limit_price = NoneR THEN NoneR
              ELSE IF order.side = "BUY"
                   THEN IF RLe(bar.low, order.limit_price) THEN order.limit_price ELSE NoneR
                   ELSE IF RLe(order.limit_price, bar.high) THEN order.limit_price ELSE NoneR
         ELSE NoneR

\* slippage models: NoSlippage, FixedBpsSlippage(bps),
\* VolumeBasedSlippage(base_bps, volume_impact)
NoSlip == [kind |-> "none", bps |-> Zero, volume_impact |-> Zero]
FixedBps(bps) == [kind |-> "fixed_bps", bps |-> bps, volume_impact |-> Zero]
VolumeBased(base_bps, volume_impact) ==
    [kind |-> "volume", bps |-> base_bps, volume_impact |-> volume_impact]

\* base_price * (1 + factor) on BUY, base_price * (1 - factor) on SELL
Slipped(side, base_price, slippage_factor) ==
    IF side = "BUY"
    THEN RMul(base_price, RAdd(R(1), slippage_factor))
    ELSE RMul(base_price, RSub(R(1), slippage_factor))

\* NoSlippage.apply / FixedBpsSlippage.apply / VolumeBasedSlippage.apply
SlippageApply(slip, bar, order, base_price) ==
    IF slip.kind = "none" THEN base_price
    ELSE IF slip.kind = "fixed_bps"
         THEN Slipped(order.side, base_price, RDiv(slip.bps, R(10000)))
         ELSE LET volume_fraction == IF bar.volume = Zero THEN Zero
                                     ELSE RDiv(order.qty, bar.volume)
                  total_bps == RAdd(slip.bps,
                                    RMul(RMul(volume_fraction, R(100)), slip.volume_impact))
              IN  Slipped(order.side, base_price, RDiv(total_bps, R(10000)))

\* an execution model: ExecutionModel(slippage, fees) or
\* RealisticExecutionModel(slippage, fees, spread_bps, max_fill_pct)
BasicExec(slip, feeModel) ==
    [kind |-> "basic", slip |-> slip, fee |-> feeModel,
     spread_bps |-> Zero, max_fill_pct |-> Zero]
RealisticExec(slip, feeModel, spread_bps, max_fill_pct) ==
    [kind |-> "realistic", slip |-> slip, fee |-> feeModel,
     spread_bps |-> spread_bps, max_fill_pct |-> max_fill_pct]

\* RealisticExecutionModel.__init__ defaults: spread_bps 5.0, max_fill_pct 0.1
DefaultSpreadBps == R(5)
DefaultMaxFillPct == Rat(1, 10)

\* Fill.__post_init__: the Fill(...) the execution model constructs is admitted
FillValid(f) == RLt(Zero, f.qty) /\ RLt(Zero, f.price) /\ RLe(Zero, f.fee)

RMin(a, b) == IF RLe(a, b) THEN a ELSE b

\* ExecutionModel.execute
BasicExecute(model, bar, order) ==
    IF order.symbol # bar.symbol THEN NoFill
    ELSE LET base_price == GetBasePrice(bar, order)
         IN  IF base_price = NoneR THEN NoFill
             ELSE LET execution_price == SlippageApply(model.slip, bar, order, base_price)
                  IN  [order_id |-> order.id, ts |-> bar.ts, symbol |-> order.symbol,
                       side |-> order.side, qty |-> order.qty, price |-> execution_price,
                       fee |-> FeeCompute(model.fee, order.qty, execution_price)]

\* faulty variant: the volume cap decides whether an order fills, not how much
RealisticExecute_Uncapped(model, bar, order) ==
    IF order.symbol # bar.symbol THEN NoFill
    ELSE LET max_qty == RMul(bar.volume, model.max_fill_pct)
             fill_qty == order.qty
             base_price == GetBasePrice(bar, order)
         IN  IF RLe(max_qty, Zero) THEN NoFill
             ELSE IF base_price = NoneR THEN NoFill
             ELSE LET spread_adjustment ==
                          RMul(base_price, RDiv(model.spread_bps, R(10000)))
                      spread_price == IF order.side = "BUY"
                                      THEN RAdd(base_price, spread_adjustment)
                                      ELSE RSub(base_price, spread_adjustment)
                      execution_price ==
                          SlippageApply(model.slip, bar, order, spread_price)
                  IN  [order_id |-> order.id, ts |-> bar.ts, symbol |-> order.symbol,
                       side |-> order.side, qty |-> fill_qty, price |-> execution_price,
                       fee |-> FeeCompute(model.fee, fill_qty, execution_price)]

\* RealisticExecutionModel.execute
RealisticExecute(model, bar, order) ==
    IF order.symbol # bar.symbol THEN NoFill
    ELSE LET max_qty == RMul(bar.volume, model.max_fill_pct)
             fill_qty == RMin(order.qty, max_qty)
             base_price == GetBasePrice(bar, order)
         IN  IF RLe(fill_qty, Zero) THEN NoFill
             ELSE IF base_price = NoneR THEN NoFill
             ELSE LET spread_adjustment ==
                          RMul(base_price, RDiv(model.spread_bps, R(10000)))
                      spread_price == IF order.side = "BUY"
                                      THEN RAdd(base_price, spread_adjustment)
                                      ELSE RSub(base_price, spread_adjustment)
                      execution_price ==
                          SlippageApply(model.slip, bar, order, spread_price)
                  IN  [order_id |-> order.id, ts |-> bar.ts, symbol |-> order.symbol,
                       side |-> order.side, qty |-> fill_qty, price |-> execution_price,
                       fee |-> FeeCompute(model.fee, fill_qty, execution_price)]

\* execution_model.execute(bar, order) of the model the broker was given
Execute(model, bar, order) ==
    IF model.kind = "realistic" THEN RealisticExecute(model, bar, order)
    ELSE BasicExecute(model, bar, order)

\* ------------------------------------------------------------------ brokers
\* A broker is [kind, delay, feeModel, exec, orders, pending_orders, fills]: orders
\* is the dict id -> Order; pending_orders is the insertion-ordered dict of
\* the pending ids, a sequence of [id, bars_remaining] (bars_remaining is used
\* by the PaperBroker only); the Order objects of both dicts are the same, so
\* an order's status lives in orders.
PendingIndex(pending, id) ==
    IF \E i \in 1..Len(pending) : pending[i].id = id
    THEN CHOOSE i \in 1..Len(pending) : pending[i].id = id
    ELSE 0

\* SimulatedBroker._validate_order
ValidateOrder(order) ==
    /\ ~RLe(order.qty, Zero)
    /\ ~(order.type = "limit" /\ order.limit_price = NoneR)
    /\ ~(order.limit_price # NoneR /\ RLe(order.limit_price, Zero))

\* faulty variant: an id the broker already knows is accepted again
SubmitOrder_Resubmits(br, order) ==
    IF br.kind = "simulated" /\ ~ValidateOrder(order)
    THEN [broker |-> br, ret |-> FALSE, status |-> "rejected"]
    ELSE [broker |-> [br EXCEPT
                        !.orders = DictPut(@, order.id, [order EXCEPT !.status = "pending"]),
                        !.pending_orders =
                            IF PendingIndex(@, order.id) # 0 THEN @
                            ELSE Append(@, [id |-> order.id,
                                            bars_remaining |->
                                                IF br.kind = "paper" THEN br.delay ELSE 0])],
          ret |-> TRUE, status |-> "pending"]

\* SimulatedBroker.submit_order / PaperBroker.submit_order: the broker after
\* the call, the value returned and the status left on the submitted object
SubmitOrder(br, order) ==
    IF order.id \in DOMAIN br.orders
    THEN [broker |-> br, ret |-> FALSE, status |-> order.status]
    ELSE IF br.kind = "simulated" /\ ~ValidateOrder(order)
         THEN [broker |-> br, ret |-> FALSE, status |-> "rejected"]
         ELSE [broker |-> [br EXCEPT
                             !.orders = DictPut(@, order.id, [order EXCEPT !.status = "pending"]),
                             !.pending_orders =
                                 Append(@, [id |-> order.id,
                                            bars_remaining |->
                                                IF br.kind = "paper" THEN br.delay ELSE 0])],
               ret |-> TRUE, status |-> "pending"]

\* faulty variant: the newest fill is put first in the list that is returned
RECURSIVE SimProcess_NewestFirst(_, _, _, _)
SimProcess_NewestFirst(br, bar, todo, out) ==
    IF todo = <<>> THEN [broker |-> br, fills |-> out]
    ELSE LET id == Head(todo)
             fill == Execute(br.exec, bar, br.orders[id])
         IN  IF fill # NoFill
             THEN SimProcess_NewestFirst(
                      [br EXCEPT !.fills = Append(@, fill),
                                 !.orders[id].status = "filled",
                                 !.pending_orders = RemoveAt(@, PendingIndex(@, id))],
                      bar, Tail(todo), <<fill>> \o out)
             ELSE SimProcess_NewestFirst(br, bar, Tail(todo), out)

\* the loop body of SimulatedBroker.process_bar over symbol_orders
RECURSIVE SimProcess(_, _, _, _)
SimProcess(br, bar, todo, out) ==
    IF todo = <<>> THEN [broker |-> br, fills |-> out]
    ELSE LET id == Head(todo)
             fill == Execute(br.exec, bar, br.orders[id])
         IN  IF fill # NoFill
             THEN SimProcess([br EXCEPT
                                !.fills = Append(@, fill),
                                !.orders[id].status = "filled",
                                !.pending_orders = RemoveAt(@, PendingIndex(@, id))],
                             bar, Tail(todo), Append(out, fill))
             ELSE SimProcess(br, bar, Tail(todo), out)

\* faulty variant: the delay counter runs down on the bars of every symbol
RECURSIVE PaperProcess_EveryBar(_, _, _, _, _)
PaperProcess_EveryBar(br, bar, todo, out, to_remove) ==
    IF todo = <<>> THEN [broker |-> br, fills |-> out, to_remove |-> to_remove]
    ELSE LET id == Head(todo).id
             order == br.orders[id]
             bars_remaining == Head(todo).bars_remaining - 1
             i == PendingIndex(br.pending_orders, id)
             b1 == [br EXCEPT !.pending_orders[i].bars_remaining = bars_remaining]
         IN  IF order.symbol # bar.symbol
             THEN PaperProcess_EveryBar(b1, bar, Tail(todo), out, to_remove)
             ELSE LET fill == Execute(br.exec, bar, order)
                  IN  IF bars_remaining <= 0 /\ fill # NoFill
                      THEN PaperProcess_EveryBar(
                               [b1 EXCEPT !.fills = Append(@, fill),
                                          !.orders[id].status = "filled"],
                               bar, Tail(todo), Append(out, fill),
                               Append(to_remove, id))
                      ELSE PaperProcess_EveryBar(b1, bar, Tail(todo), out, to_remove)

\* the first loop of PaperBroker.process_bar over list(pending_orders.items())
RECURSIVE PaperProcess(_, _, _, _, _)
PaperProcess(br, bar, todo, out, to_remove) ==
    IF todo = <<>> THEN [broker |-> br, fills |-> out, to_remove |-> to_remove]
    ELSE LET id == Head(todo).id
             order == br.orders[id]
             bars_remaining == Head(todo).bars_remaining - 1
             i == PendingIndex(br.pending_orders, id)
         IN  IF order.symbol # bar.symbol
             THEN PaperProcess(br, bar, Tail(todo), out, to_remove)
             ELSE LET b1 == [br EXCEPT !.pending_orders[i].bars_remaining = bars_remaining]
                      fill == Execute(br.exec, bar, order)
                  IN  IF bars_remaining <= 0 /\ fill # NoFill
                      THEN PaperProcess([b1 EXCEPT !.fills = Append(@, fill),
                                                   !.orders[id].status = "filled"],
                                        bar, Tail(todo), Append(out, fill),
                                        Append(to_remove, id))
                      ELSE PaperProcess(b1, bar, Tail(todo), out, to_remove)

RECURSIVE RemovePending(_, _)
RemovePending(pending, ids) ==
    IF ids = <<>> THEN pending
    ELSE RemovePending(RemoveAt(pending, PendingIndex(pending, Head(ids))), Tail(ids))

\* faulty variant: process_bar forgets the orders of the bar's symbol that it
\* could not fill
ProcessBar_DropsUnfilled(br, bar) ==
    LET OnSymbol(p) == br.orders[p.id].symbol = bar.symbol
        OffSymbol(p) == br.orders[p.id].symbol # bar.symbol
        symbol_orders == SelectSeq(br.pending_orders, OnSymbol)
        r == IF br.kind = "simulated"
             THEN SimProcess(br, bar,
                             [k \in 1..Len(symbol_orders) |-> symbol_orders[k].id], <<>>)
             ELSE PaperProcess(br, bar, br.pending_orders, <<>>, <<>>)
    IN  [broker |-> [r.broker EXCEPT !.pending_orders = SelectSeq(@, OffSymbol)],
         fills |-> r.fills]

\* SimulatedBroker.process_bar / PaperBroker.process_bar: the broker after the
\* call and the list of fills returned
ProcessBar(br, bar) ==
    IF br.kind = "simulated"
    THEN LET OnSymbol(p) == br.orders[p.id].symbol = bar.symbol
             symbol_orders == SelectSeq(br.pending_orders, OnSymbol)
         IN  SimProcess(br, bar, [k \in 1..Len(symbol_orders) |-> symbol_orders[k].id], <<>>)
    ELSE LET r == PaperProcess(br, bar, br.pending_orders, <<>>, <<>>)
         IN  [broker |-> [r.broker EXCEPT
                            !.pending_orders = RemovePending(@, r.to_remove)],
              fills |-> r.fills]

\* A cancel_order that forgets the "is it still pending" test: it cancels any
\* order the broker knows, a filled one included.
CancelOrder_Known(br, id) ==
    LET i == PendingIndex(br.pending_orders, id)
    IN  IF id \notin DOMAIN br.orders THEN [broker |-> br, ret |-> FALSE]
        ELSE [broker |-> [br EXCEPT !.orders[id].status = "cancelled",
                                    !.pending_orders =
                                        IF i = 0 THEN @ ELSE RemoveAt(@, i)],
              ret |-> TRUE]

\* faulty variant: the cancelled order is left in pending_orders
CancelOrder_KeepsPending(br, id) ==
    LET i == PendingIndex(br.pending_orders, id)
    IN  IF i = 0 THEN [broker |-> br, ret |-> FALSE]
        ELSE [broker |-> [br EXCEPT !.orders[id].status = "cancelled"],
              ret |-> TRUE]

\* SimulatedBroker.cancel_order / PaperBroker.cancel_order
CancelOrder(br, id) ==
    LET i == PendingIndex(br.pending_orders, id)
    IN  IF i = 0 THEN [broker |-> br, ret |-> FALSE]
        ELSE [broker |-> [br EXCEPT !.orders[id].status = "cancelled",
                                    !.pending_orders = RemoveAt(@, i)],
              ret |-> TRUE]

\* -------------------------------------------------------------- strategies
\* SmaCrossStrategy.__init__ (fast < slow, both >= 2, position_size > 0)
SmaCross(fast, slow, position_size) ==
    [kind |-> "sma_cross", fast |-> fast, slow |-> slow, position_size |-> position_size,
     buffers |-> EmptyDict, prev_signal |-> EmptyDict, entered |-> EmptyDict]

\* BuyAndHoldStrategy.__init__ (position_size > 0)
BuyAndHold(position_size) ==
    [kind |-> "buy_and_hold", fast |-> 0, slow |-> 0, position_size |-> position_size,
     buffers |-> EmptyDict, prev_signal |-> EmptyDict, entered |-> EmptyDict]

\* strategy.on_start(universe, params)
OnStart(st, univ) ==
    IF st.kind = "sma_cross"
    THEN [st EXCEPT !.buffers = [s \in univ |-> [fast_buf |-> <<>>, slow_buf |-> <<>>]],
                    !.prev_signal = [s \in univ |-> 0]]
    ELSE IF st.kind = "buy_and_hold"
         THEN [st EXCEPT !.entered = [s \in univ |-> FALSE]]
         ELSE st

\* deque(maxlen).append
DequeAppend(buf, x, maxlen) ==
    IF Len(buf) = maxlen THEN Append(Tail(buf), x) ELSE Append(buf, x)

RECURSIVE RSum(_)
RSum(buf) == IF buf = <<>> THEN Zero ELSE RAdd(Head(buf), RSum(Tail(buf)))

\* sum(buf) / len(buf)
Mean(buf) == RDiv(RSum(buf), R(Len(buf)))

\* faulty variant: the bearish crossover sells position_size, not the position
SmaOnBar_SellsSize(st, b, positions, id) ==
    LET none == [strategy |-> st, orders |-> <<>>, positions |-> positions, next_id |-> id]
    IN  IF b.symbol \notin DOMAIN st.buffers THEN none
        ELSE
        LET fast_buf == DequeAppend(st.buffers[b.symbol].fast_buf, b.close, st.fast)
            slow_buf == DequeAppend(st.buffers[b.symbol].slow_buf, b.close, st.slow)
            st1 == [st EXCEPT !.buffers[b.symbol] =
                                 [fast_buf |-> fast_buf, slow_buf |-> slow_buf]]
        IN  IF Len(fast_buf) < st.fast \/ Len(slow_buf) < st.slow
            THEN [none EXCEPT !.strategy = st1]
            ELSE
            LET current_signal == IF RLt(Mean(slow_buf), Mean(fast_buf)) THEN 1 ELSE -1
                prev == st.prev_signal[b.symbol]
                st2 == [st1 EXCEPT !.prev_signal[b.symbol] = current_signal]
            IN  IF prev = current_signal THEN [none EXCEPT !.strategy = st2]
                ELSE
                LET withPos == GetPosition(positions, b.symbol)
                    current_qty == withPos[b.symbol].qty
                    orders ==
                        IF current_signal = 1 /\ RLe(current_qty, Zero)
                        THEN <<NewOrder(id, b.ts, b.symbol, "BUY",
                                        RAdd(RAbs(current_qty), st.position_size),
                                        "market", NoneR)>>
                        ELSE IF current_signal = -1 /\ RLt(Zero, current_qty)
                             THEN <<NewOrder(id, b.ts, b.symbol, "SELL", st.position_size,
                                             "market", NoneR)>>
                             ELSE <<>>
                IN  [strategy |-> st2, orders |-> orders, positions |-> withPos,
                     next_id |-> id + Len(orders)]

\* SmaCrossStrategy.on_bar: the strategy after the call, the orders returned,
\* the positions dict (get_position creates a missing entry) and the next id
\* of id_gen
SmaOnBar(st, b, positions, id) ==
    LET none == [strategy |-> st, orders |-> <<>>, positions |-> positions, next_id |-> id]
    IN  IF b.symbol \notin DOMAIN st.buffers THEN none
        ELSE
        LET fast_buf == DequeAppend(st.buffers[b.symbol].fast_buf, b.close, st.fast)
            slow_buf == DequeAppend(st.buffers[b.symbol].slow_buf, b.close, st.slow)
            st1 == [st EXCEPT !.buffers[b.symbol] =
                                 [fast_buf |-> fast_buf, slow_buf |-> slow_buf]]
        IN  IF Len(fast_buf) < st.fast \/ Len(slow_buf) < st.slow
            THEN [none EXCEPT !.strategy = st1]
            ELSE
            LET fast_ma == Mean(fast_buf)
                slow_ma == Mean(slow_buf)
                current_signal == IF RLt(slow_ma, fast_ma) THEN 1 ELSE -1
                prev == st.prev_signal[b.symbol]
                st2 == [st1 EXCEPT !.prev_signal[b.symbol] = current_signal]
            IN  IF prev = current_signal THEN [none EXCEPT !.strategy = st2]
                ELSE
                LET withPos == GetPosition(positions, b.symbol)
                    current_qty == withPos[b.symbol].qty
                    orders ==
                        IF current_signal = 1 /\ RLe(current_qty, Zero)
                        THEN <<NewOrder(id, b.ts, b.symbol, "BUY",
                                        RAdd(RAbs(current_qty), st.position_size),
                                        "market", NoneR)>>
                        ELSE IF current_signal = -1 /\ RLt(Zero, current_qty)
                             THEN <<NewOrder(id, b.ts, b.symbol, "SELL", current_qty,
                                             "market", NoneR)>>
                             ELSE <<>>
                IN  [strategy |-> st2, orders |-> orders, positions |-> withPos,
                     next_id |-> id + Len(orders)]

\* faulty variant: buy-and-hold never remembers that it has entered
BuyAndHoldOnBar_Reenters(st, b, positions, id) ==
    IF b.symbol \notin DOMAIN st.entered
    THEN [strategy |-> st, orders |-> <<>>, positions |-> positions, next_id |-> id]
    ELSE [strategy |-> st,
          orders |-> <<NewOrder(id, b.ts, b.symbol, "BUY", st.position_size,
                                "market", NoneR)>>,
          positions |-> positions, next_id |-> id + 1]

\* BuyAndHoldStrategy.on_bar
BuyAndHoldOnBar(st, b, positions, id) ==
    IF b.symbol \notin DOMAIN st.entered \/ st.entered[b.symbol]
    THEN [strategy |-> st, orders |-> <<>>, positions |-> positions, next_id |-> id]
    ELSE [strategy |-> [st EXCEPT !.entered[b.symbol] = TRUE],
          orders |-> <<NewOrder(id, b.ts, b.symbol, "BUY", st.position_size,
                                "market", NoneR)>>,
          positions |-> positions, next_id |-> id + 1]

\* strategy.on_bar(bar, state) of the two built-in strategies
OnBar(st, b, positions, id) ==
    IF st.kind = "sma_cross" THEN SmaOnBar(st, b, positions, id)
    ELSE BuyAndHoldOnBar(st, b, positions, id)

\* strategy.on_end(state): both strategies clear their dicts
OnEnd(st) ==
    [st EXCEPT !.buffers = EmptyDict, !.prev_signal = EmptyDict, !.entered = EmptyDict]

\* --------------------------------------------------------------- analytics
\* Timestamps of equity points are whole days, so (t2 - t1).days is t2 - t1.
\* A result carries raised = TRUE when the call ends in an exception.

\* PerformanceMetrics._calculate_returns
RECURSIVE CalculateReturns(_, _)
CalculateReturns(equity_values, i) ==
    IF i > Len(equity_values) THEN <<>>
    ELSE IF equity_values[i - 1] # Zero
         THEN <<RDiv(RSub(equity_values[i], equity_values[i - 1]), equity_values[i - 1])>>
              \o CalculateReturns(equity_values, i + 1)
         ELSE CalculateReturns(equity_values, i + 1)

\* faulty variant: the running maximum stays at the first value
RECURSIVE DrawdownLoop_FirstPeak(_, _, _, _)
DrawdownLoop_FirstPeak(equity_values, timestamps, i, acc) ==
    IF i > Len(equity_values) \/ acc.raised THEN acc
    ELSE IF acc.max_equity = Zero THEN [acc EXCEPT !.raised = TRUE]
         ELSE LET dd == RDiv(RSub(equity_values[i], acc.max_equity), acc.max_equity)
              IN  DrawdownLoop_FirstPeak(equity_values, timestamps, i + 1,
                      [acc EXCEPT !.max_dd = IF RLt(dd, @) THEN dd ELSE @])

\* the loop of PerformanceMetrics._calculate_drawdown from index i on; the
\* division by max_equity raises ZeroDivisionError when max_equity is 0
RECURSIVE DrawdownLoop(_, _, _, _)
DrawdownLoop(equity_values, timestamps, i, acc) ==
    IF i > Len(equity_values) \/ acc.raised THEN acc
    ELSE LET equity == equity_values[i]
         IN  IF RLt(acc.max_equity, equity)
             THEN DrawdownLoop(equity_values, timestamps, i + 1,
                               [acc EXCEPT !.max_equity = equity,
                                           !.current_dd_start = NoneTs])
             ELSE IF acc.max_equity = Zero THEN [acc EXCEPT !.raised = TRUE]
             ELSE LET dd == RDiv(RSub(equity, acc.max_equity), acc.max_equity)
                      a1 == [acc EXCEPT !.max_dd = IF RLt(dd, @) THEN dd ELSE @]
                      duration == timestamps[i] - acc.current_dd_start
                  IN  DrawdownLoop(equity_values, timestamps, i + 1,
                          IF acc.current_dd_start = NoneTs
                          THEN [a1 EXCEPT !.current_dd_start = timestamps[i]]
                          ELSE [a1 EXCEPT !.max_dd_duration =
                                              IF duration > @ THEN duration ELSE @])

\* PerformanceMetrics._calculate_drawdown: (max_dd, max_dd_duration)
CalculateDrawdown(equity_values, timestamps) ==
    IF equity_values = <<>>
    THEN [raised |-> FALSE, max_dd |-> Zero, max_dd_duration |-> 0]
    ELSE LET acc == DrawdownLoop(equity_values, timestamps, 1,
                                 [max_equity |-> equity_values[1], max_dd |-> Zero,
                                  max_dd_duration |-> 0, current_dd_start |-> NoneTs,
                                  raised |-> FALSE])
         IN  [raised |-> acc.raised, max_dd |-> acc.max_dd,
              max_dd_duration |-> acc.max_dd_duration]

\* PerformanceMetrics._empty_metrics
EmptyMetrics ==
    [raised |-> FALSE, total_return |-> Zero, total_return_pct |-> Zero,
     max_drawdown |-> Zero, max_drawdown_pct |-> Zero, max_drawdown_duration_days |-> 0,
     win_rate |-> Zero, days |-> 0]

\* PerformanceMetrics.calculate_equity_metrics. The annualized return, the
\* volatility and the Sharpe, Sortino and Calmar ratios are a power and square
\* roots of these values, divided only by values tested positive; they are
\* not rationals and their fields are left out of the result.
CalculateEquityMetrics(equity_curve_arg, initial_capital) ==
    IF Len(equity_curve_arg) < 2 THEN EmptyMetrics
    ELSE LET equity_values == [k \in 1..Len(equity_curve_arg) |-> equity_curve_arg[k].equity]
             timestamps == [k \in 1..Len(equity_curve_arg) |-> equity_curve_arg[k].ts]
             returns == CalculateReturns(equity_values, 2)
             total_return == RDiv(RSub(equity_values[Len(equity_values)], initial_capital),
                                  initial_capital)
             dd == CalculateDrawdown(equity_values, timestamps)
             winning_days == Cardinality({k \in 1..Len(returns) : RLt(Zero, returns[k])})
             win_rate == IF returns # <<>> THEN Rat(winning_days, Len(returns)) ELSE Zero
         IN  IF dd.raised THEN [EmptyMetrics EXCEPT !.raised = TRUE]
             ELSE [raised |-> FALSE, total_return |-> total_return,
                   total_return_pct |-> RMul(total_return, R(100)),
                   max_drawdown |-> dd.max_dd,
                   max_drawdown_pct |-> RMul(dd.max_dd, R(100)),
                   max_drawdown_duration_days |-> dd.max_dd_duration,
                   win_rate |-> win_rate,
                   days |-> timestamps[Len(timestamps)] - timestamps[1]]

\* the loop of PerformanceMetrics.calculate_drawdown_curve from index i on
RECURSIVE DrawdownCurveLoop(_, _, _)
DrawdownCurveLoop(equity_curve_arg, i, max_equity) ==
    IF i > Len(equity_curve_arg) THEN <<>>
    ELSE LET equity == equity_curve_arg[i].equity
             m == IF RLt(max_equity, equity) THEN equity ELSE max_equity
             dd == IF RLt(Zero, m) THEN RDiv(RSub(equity, m), m) ELSE Zero
         IN  <<[ts |-> equity_curve_arg[i].ts, drawdown |-> dd,
                drawdown_pct |-> RMul(dd, R(100))]>>
             \o DrawdownCurveLoop(equity_curve_arg, i + 1, m)

\* PerformanceMetrics.calculate_drawdown_curve
CalculateDrawdownCurve(equity_curve_arg) ==
    IF equity_curve_arg = <<>> THEN <<>>
    ELSE DrawdownCurveLoop(equity_curve_arg, 1, equity_curve_arg[1].equity)

\* max(items, key): the first item with the greatest key
MaxBy(items, Key(_)) ==
    items[CHOOSE i \in 1..Len(items) :
              /\ \A j \in 1..Len(items) : Key(items[j]) <= Key(items[i])
              /\ \A j \in 1..(i - 1) : Key(items[j]) < Key(items[i])]

\* compare_strategies: the three names of the comparison ({} for no report)
CompareStrategies(reps) ==
    IF reps = <<>> THEN [empty |-> TRUE]
    ELSE LET ByReturn(x) == x.total_return_pct
             BySharpe(x) == x.sharpe_ratio
             ByDrawdown(x) == -x.max_drawdown_pct
         IN  [empty |-> FALSE,
              best_return |-> MaxBy(reps, ByReturn).strategy,
              best_sharpe |-> MaxBy(reps, BySharpe).strategy,
              lowest_drawdown |-> MaxBy(reps, ByDrawdown).strategy]

\* ------------------------------------------------------------------- state
VARIABLES
    portfolio,      \* PortfolioManager.portfolio: [cash, equity, positions]
    equity_curve,   \* PortfolioManager.equity_curve
    trades,         \* PortfolioManager.trades
    open_trades,    \* PortfolioManager._open_trades
    broker,         \* the broker: [kind, delay, feeModel, exec, orders, pending_orders, fills]
    call,           \* the last call made on the portfolio manager and its arguments
    bcall,          \* the last call made on the broker, its arguments and results
    ncalls,         \* number of API calls made so far
    pc,             \* BacktestRunner: where run() stands
    running,        \* BacktestRunner._running
    bar,            \* the bar the loop is processing
    bar_count,      \* state["bar_count"]
    current_prices, \* state["current_prices"]
    next_id,        \* the counter of state["id_gen"]
    fills_todo,     \* the fills process_bar returned that are not yet applied
    orders_todo,    \* the orders on_bar returned that are not yet submitted
    recorder,       \* EventRecorder: [orders, fills, equity_points, end_time]
    results,        \* what run() returned
    results2,       \* what a second execution of run() on the same inputs returned
    feed_ts,        \* the feed: timestamp of the last bar it yielded per symbol
    steps,          \* history: the calls made while processing the current bar
    born,           \* history: order id -> bar_count when on_bar returned it
    filled_at,      \* history: bar_count at which each fill of broker.fills was made
    applied,        \* history: number of fills applied to the portfolio
    xcall,          \* the last call made on a slippage or execution model
    strategy,       \* BacktestRunner.strategy: the strategy object and its fields
    universe,       \* BacktestRunner.universe
    mcurve,         \* the equity curve a caller of the analytics holds
    reports,        \* the reports a caller of compare_strategies holds
    mcall,          \* the last call made on the analytics or a schema, and its result
    clock,          \* MultiSymbolClock: [symbol_bars, buffers]
    ticks,          \* history: the calls made on the clock (or on the strategy) and their bars
    runs            \* the backtest runs that execute side by side

pmVars == <<portfolio, equity_curve, trades, open_trades, call>>
brokerVars == <<broker, bcall>>
clockVars == <<clock, ticks>>
toolVars == <<mcurve, reports, mcall, clock, ticks, runs>>
runVars == <<pc, running, bar, bar_count, current_prices, next_id, fills_todo, orders_todo,
             recorder, results, results2, feed_ts, steps, born, filled_at, applied>>
vars == <<portfolio, equity_curve, trades, open_trades, broker, call, bcall, ncalls,
          pc, running, bar, bar_count, current_prices, next_id, fills_todo, orders_todo,
          recorder, results, results2, feed_ts, steps, born, filled_at, applied, xcall,
          strategy, universe, mcurve, reports, mcall, clock, ticks, runs>>

PM == [portfolio |-> portfolio, equity_curve |-> equity_curve,
       trades |-> trades, open_trades |-> open_trades]

SetPM(pm) ==
    /\ portfolio' = pm.portfolio
    /\ equity_curve' = pm.equity_curve
    /\ trades' = pm.trades
    /\ open_trades' = pm.open_trades

\* PortfolioManager(initial_cash) as a value
NewPM(initial_cash) ==
    [portfolio |-> [cash |-> initial_cash, equity |-> initial_cash, positions |-> EmptyDict],
     equity_curve |-> <<>>, trades |-> <<>>, open_trades |-> <<>>]

\* no call made yet on the analytics
NoMetricsCall == [op |-> "none"]

\* no clock has been built
NoClock == [symbol_bars |-> <<>>, buffers |-> <<>>]

\* no clock and no side-by-side runs
InitIdle ==
    /\ clock = NoClock
    /\ ticks = <<>>
    /\ runs = <<>>

\* the callers of the analytics hold nothing yet
InitTools ==
    /\ mcurve = <<>>
    /\ reports = <<>>
    /\ mcall = NoMetricsCall
    /\ InitIdle

\* PortfolioManager.__init__
InitPM ==
    /\ portfolio = [cash |-> R(InitialCash), equity |-> R(InitialCash), positions |-> EmptyDict]
    /\ equity_curve = <<>>
    /\ trades = <<>>
    /\ open_trades = <<>>
    /\ call = [op |-> "none", fill |-> NoFill, prices |-> EmptyDict, ts |-> NoneTs]

\* SimulatedBroker.__init__ / PaperBroker.__init__
NewBroker(kind, delay, feeModel) ==
    [kind |-> kind, delay |-> delay, feeModel |-> feeModel,
     exec |-> BasicExec(NoSlip, feeModel),
     orders |-> [x \in {} |-> NoFill], pending_orders |-> <<>>, fills |-> <<>>]

NoOrder == NewOrder(0, NoneTs, "A", "BUY", NoneR, "market", NoneR)
NoBar == NewBar(NoneTs, "A", NoneR, NoneR, NoneR, NoneR)

\* no call made yet on an execution model
NoExecCall ==
    [op |-> "none", slip |-> NoSlip, order |-> NoOrder, bar |-> NoBar,
     base_price |-> NoneR, price |-> NoneR, fill |-> NoFill, raised |-> FALSE]

InitBroker(kinds) ==
    /\ \E k \in kinds :
          broker = NewBroker(k[1], k[2], "percentage")
    /\ xcall = NoExecCall
    /\ bcall = [op |-> "none", order |-> NoOrder, id |-> 0, bar |-> NoBar,
                ret |-> FALSE, fills |-> <<>>]

NoResults == [status |-> "none"]

\* a strategy of which nothing is known but the BaseStrategy protocol
AnyStrategy == [kind |-> "any"]

\* EventRecorder.__init__
NewRecorder(record_bars) ==
    [record_bars |-> record_bars, bars |-> <<>>, orders |-> <<>>, fills |-> <<>>,
     equity_points |-> <<>>, end_time |-> NoneTs]

\* BacktestRunner.__init__ with the recorder it is given
InitRunnerWith(rec) ==
    /\ pc = "idle"
    /\ running = FALSE
    /\ bar = NoBar
    /\ bar_count = 0
    /\ current_prices = EmptyDict
    /\ next_id = 1
    /\ fills_todo = <<>>
    /\ orders_todo = <<>>
    /\ recorder = rec
    /\ results = NoResults
    /\ results2 = NoResults
    /\ feed_ts = [s \in Symbols |-> 1]
    /\ steps = <<>>
    /\ born = [x \in {} |-> 0]
    /\ filled_at = <<>>
    /\ applied = 0
    /\ universe = {}

\* BacktestRunner.__init__ with the default recorder, EventRecorder(record_bars=False)
InitRunner == InitRunnerWith(NewRecorder(FALSE))

\* ------------------------------------------- the portfolio manager's callers
\* current_prices arguments: the empty dict, one that prices only A, and one
\* that prices every symbol
PriceMaps ==
    {EmptyDict,
     [s \in {"A"} |-> R(1)],
     [s \in Symbols |-> IF s = "A" THEN R(50) ELSE R(1)]}

\* a fill as Fill.__post_init__ admits it (qty > 0, price > 0, fee >= 0), the
\* fee computed by the configured fee model
FillOf(t, s, sd, q, p) ==
    [order_id |-> 0, ts |-> t, symbol |-> s, side |-> sd, qty |-> q, price |-> p,
     fee |-> FeeCompute(broker.feeModel, q, p)]

\* the fills a caller applies: both sides and quantities on A at the low price,
\* two units bought and one sold at the high price, and one unit bought low and
\* sold high on B
FillSet(t) ==
    {FillOf(t, "A", sd, q, R(1)) : sd \in Sides, q \in QtySet}
    \cup {FillOf(t, "A", "BUY", R(2), R(50)), FillOf(t, "A", "SELL", R(1), R(50))}
    \cup {FillOf(t, "B", "BUY", R(1), R(1)), FillOf(t, "B", "SELL", R(1), R(50))}

\* current_prices arguments of apply_fill: the fill's symbol may or may not be
\* the only one priced
FillPriceMaps == PriceMaps \ {EmptyDict}

InitAPI ==
    /\ InitPM
    /\ InitTools
    /\ strategy = AnyStrategy
    /\ InitBroker({<<"simulated", 0>>})
    /\ InitRunner
    /\ ncalls = 0

\* a caller invokes PortfolioManager.apply_fill(fill, current_prices)
ApplyFill ==
    /\ ncalls < MaxCalls
    /\ \E f \in FillSet(ncalls + 1), prices \in FillPriceMaps :
          /\ SetPM(PMApplyFill(PM, f, prices))
          /\ call' = [op |-> "apply_fill", fill |-> f, prices |-> prices, ts |-> f.ts]
    /\ ncalls' = ncalls + 1
    /\ UNCHANGED <<xcall, toolVars, strategy, universe, brokerVars, runVars>>

\* a caller invokes PortfolioManager.mark_to_market(ts, prices)
MarkToMarket ==
    /\ ncalls < MaxCalls
    /\ \E prices \in PriceMaps :
          /\ SetPM(PMMarkToMarket(PM, ncalls + 1, prices))
          /\ call' = [op |-> "mark_to_market", fill |-> NoFill, prices |-> prices,
                      ts |-> ncalls + 1]
    /\ ncalls' = ncalls + 1
    /\ UNCHANGED <<xcall, toolVars, strategy, universe, brokerVars, runVars>>

\* a caller invokes PortfolioManager.close_all_positions(ts, prices)
CloseAllPositions ==
    /\ ncalls < MaxCalls
    /\ \E prices \in PriceMaps :
          /\ SetPM(PMCloseAllPositions(PM, ncalls + 1, prices))
          /\ call' = [op |-> "close_all_positions", fill |-> NoFill, prices |-> prices,
                      ts |-> ncalls + 1]
    /\ ncalls' = ncalls + 1
    /\ UNCHANGED <<xcall, toolVars, strategy, universe, brokerVars, runVars>>

NextPM == ApplyFill \/ MarkToMarket \/ CloseAllPositions

SpecPM == InitAPI /\ [][NextPM]_vars

\* ---------------------------------------------------------- broker's callers
\* the orders a caller submits: market and limit orders on A, one market buy
\* on B; LIMIT BUY at 1 and LIMIT SELL at 50 do not fill on every bar
\* (every order Order.__post_init__ admits passes _validate_order, which
\* repeats its three tests)
OrderShapes ==
    {<<"A", "BUY", R(1), "market", NoneR>>,
     <<"A", "SELL", R(5), "market", NoneR>>,
     <<"A", "BUY", R(1), "limit", R(1)>>,
     <<"A", "SELL", R(1), "limit", R(50)>>,
     <<"B", "BUY", R(1), "market", NoneR>>}

OrderOf(id, ts, shape) ==
    NewOrder(id, ts, shape[1], shape[2], shape[3], shape[4], shape[5])

\* the bars of the feed: flat at 1, flat at 50, and ranging from 1 to 50
BarShapes ==
    {<<"A", R(1), R(1), R(1)>>, <<"A", R(50), R(50), R(50)>>, <<"A", R(1), R(50), R(50)>>,
     <<"B", R(1), R(1), R(1)>>}

BarVolume == R(100)
BarOf(ts, shape) == NewBar(ts, shape[1], shape[2], shape[3], shape[4], BarVolume)

\* the volumes of the bars a broker is given: bar.volume is read by
\* RealisticExecutionModel (and by VolumeBasedSlippage) only, and there an
\* empty bar, a thin bar (10% of it is less than an order of 5) and a deep bar
\* differ
BarVolumes(br) ==
    IF br.exec.kind = "realistic" THEN {Zero, R(10), BarVolume} ELSE {BarVolume}

\* SimulatedBroker(RealisticExecutionModel(NoSlippage(), PercentageFeeModel()))
InitRealisticBroker ==
    /\ broker = [NewBroker("simulated", 0, "percentage") EXCEPT
                   !.exec = RealisticExec(NoSlip, "percentage",
                                          DefaultSpreadBps, DefaultMaxFillPct)]
    /\ bcall = [op |-> "none", order |-> NoOrder, id |-> 0, bar |-> NoBar,
                ret |-> FALSE, fills |-> <<>>]
    /\ xcall = NoExecCall

\* the ids a caller uses: the next unused one or the first one again
FreshId == Cardinality(DOMAIN broker.orders) + 1

InitBrokerAPI ==
    /\ InitPM
    /\ InitTools
    /\ strategy = AnyStrategy
    /\ \/ InitBroker({<<"simulated", 0>>, <<"paper", PaperDelay>>,
                       <<"paper", PaperDelay + 1>>})
       \/ InitRealisticBroker
    /\ InitRunner
    /\ ncalls = 0

\* a caller invokes broker.submit_order(order)
CallSubmitOrder ==
    /\ ncalls < MaxBrokerCalls
    /\ \E id \in {FreshId, 1}, shape \in OrderShapes :
          LET order == OrderOf(id, ncalls + 1, shape)
              r == SubmitOrder(broker, order)
          IN  /\ broker' = r.broker
              /\ bcall' = [op |-> "submit_order", order |-> [order EXCEPT !.status = r.status],
                           id |-> id, bar |-> NoBar, ret |-> r.ret, fills |-> <<>>]
    /\ ncalls' = ncalls + 1
    /\ UNCHANGED <<xcall, toolVars, strategy, universe, pmVars, runVars>>

\* a caller invokes broker.process_bar(bar)
CallProcessBar ==
    /\ ncalls < MaxBrokerCalls
    /\ \E shape \in BarShapes, vol \in BarVolumes(broker) :
          LET b == [BarOf(ncalls + 1, shape) EXCEPT !.volume = vol]
              r == ProcessBar(broker, b)
          IN  /\ BarValid(b)
              /\ broker' = r.broker
              /\ bcall' = [op |-> "process_bar", order |-> NoOrder, id |-> 0, bar |-> b,
                           ret |-> FALSE, fills |-> r.fills]
    /\ ncalls' = ncalls + 1
    /\ UNCHANGED <<xcall, toolVars, strategy, universe, pmVars, runVars>>

\* a caller invokes broker.cancel_order(order_id)
CallCancelOrder ==
    /\ ncalls < MaxBrokerCalls
    /\ \E id \in 1..2 :
          LET r == CancelOrder(broker, id)
          IN  /\ broker' = r.broker
              /\ bcall' = [op |-> "cancel_order", order |-> NoOrder, id |-> id, bar |-> NoBar,
                           ret |-> r.ret, fills |-> <<>>]
    /\ ncalls' = ncalls + 1
    /\ UNCHANGED <<xcall, toolVars, strategy, universe, pmVars, runVars>>

NextBroker == CallSubmitOrder \/ CallProcessBar \/ CallCancelOrder

SpecBroker == InitBrokerAPI /\ [][NextBroker]_vars

\* ------------------------------------------- the execution models' callers
\* the slippage models the constructors admit (bps >= 0; base_bps >= 0 and
\* volume_impact >= 0): none, fixed at 0, 5, 10000 and 20000 bps, volume based
\* with the default parameters, with both zero and with a steep impact
SlippageModels ==
    {NoSlip, FixedBps(Zero), FixedBps(R(5)), FixedBps(R(10000)), FixedBps(R(20000)),
     VolumeBased(R(2), R(10)), VolumeBased(Zero, Zero), VolumeBased(R(2), R(300))}

\* base prices handed to apply
BasePrices == {Zero, R(1), R(50)}

\* execute raises the ValueError of Fill.__post_init__ when the price it
\* computed is not positive
ExecuteRaises(model, b, order) ==
    LET fill == Execute(model, b, order)
    IN  fill # NoFill /\ ~FillValid(fill)

InitExecAPI ==
    /\ InitPM
    /\ InitTools
    /\ strategy = AnyStrategy
    /\ InitBroker({<<"simulated", 0>>})
    /\ InitRunner
    /\ ncalls = 0

\* a caller invokes slippage_model.apply(bar, order, base_price)
CallSlippageApply ==
    /\ ncalls < MaxExecCalls
    /\ \E slip \in SlippageModels, oshape \in OrderShapes,
          vol \in {Zero, R(10), BarVolume}, base_price \in BasePrices :
          LET order == OrderOf(1, 1, oshape)
              b == NewBar(1, order.symbol, R(1), R(50), R(50), vol)
          IN  /\ BarValid(b)
              /\ xcall' = [op |-> "apply", slip |-> slip, order |-> order, bar |-> b,
                           base_price |-> base_price,
                           price |-> SlippageApply(slip, b, order, base_price),
                           fill |-> NoFill, raised |-> FALSE]
    /\ ncalls' = ncalls + 1
    /\ UNCHANGED <<toolVars, strategy, universe, pmVars, brokerVars, runVars>>

\* a caller invokes ExecutionModel(slippage, fees).execute(bar, order)
CallExecute ==
    /\ ncalls < MaxExecCalls
    /\ \E slip \in SlippageModels, oshape \in OrderShapes, bshape \in BarShapes,
          vol \in {Zero, R(10), BarVolume} :
          LET order == OrderOf(1, 1, oshape)
              b == [BarOf(1, bshape) EXCEPT !.volume = vol]
              model == BasicExec(slip, "percentage")
              raised == ExecuteRaises(model, b, order)
          IN  /\ BarValid(b)
              /\ xcall' = [op |-> "execute", slip |-> slip, order |-> order, bar |-> b,
                           base_price |-> GetBasePrice(b, order), price |-> NoneR,
                           fill |-> IF raised THEN NoFill ELSE Execute(model, b, order),
                           raised |-> raised]
    /\ ncalls' = ncalls + 1
    /\ UNCHANGED <<toolVars, strategy, universe, pmVars, brokerVars, runVars>>

NextExec == CallSlippageApply \/ CallExecute

SpecExec == InitExecAPI /\ [][NextExec]_vars

\* ------------------------------------------------------------ BacktestRunner
\* the order of the steps of one iteration of BacktestRunner._run_loop: the
\* step that follows each step
AfterStep_StrategyFirst(p) ==
    CASE p = "next_bar" -> "on_bar"
      [] p = "on_bar" -> "submit"
      [] p = "submit" -> "process_bar"
      [] p = "process_bar" -> "apply_fills"
      [] p = "apply_fills" -> "mark"
      [] p = "mark" -> "next_bar"

AfterStep(p) ==
    CASE p = "next_bar" -> "process_bar"
      [] p = "process_bar" -> "apply_fills"
      [] p = "apply_fills" -> "on_bar"
      [] p = "on_bar" -> "submit"
      [] p = "submit" -> "mark"
      [] p = "mark" -> "next_bar"

LoopPcs == {"next_bar", "process_bar", "apply_fills", "on_bar", "submit", "mark"}

\* the bars a feed yields: A flat at 1, A flat at 50, B flat at 1
FeedShapes ==
    {<<"A", R(1), R(1), R(1)>>, <<"A", R(50), R(50), R(50)>>, <<"B", R(1), R(1), R(1)>>}

\* what a strategy's on_bar returns: no order, one order, or two orders
StrategyChoices ==
    {<<>>,
     <<(<<"A", "SELL", R(1), "market", NoneR>>)>>,
     <<(<<"A", "BUY", R(1), "market", NoneR>>), (<<"B", "BUY", R(1), "market", NoneR>>)>>}

\* the instants datetime.utcnow() can return: before every bar of the feed or
\* after every bar of the feed
WallClock == {0, 3}

RECURSIVE SumPnl(_)
SumPnl(ts) == IF ts = <<>> THEN Zero ELSE RAdd(Head(ts).pnl, SumPnl(Tail(ts)))

\* Trade.duration
Duration(t) == IF t.exit_ts = NoneTs THEN NoneTs ELSE t.exit_ts - t.entry_ts

\* BacktestRunner._calculate_return_pct
ReturnPct(initial_cash, final_equity) ==
    IF initial_cash = Zero THEN Zero
    ELSE RMul(RDiv(RSub(final_equity, initial_cash), initial_cash), R(100))

\* BacktestRunner._finalize up to the final mark: force-close, mark to market
FinalizePM(pm, prices, final_ts) ==
    LET closed == IF DOMAIN pm.portfolio.positions # {}
                  THEN PMCloseAllPositions(pm, final_ts, prices)
                  ELSE pm
    IN  PMMarkToMarket(closed, final_ts, prices)

\* BacktestRunner._finalize: the results dict (run_id, strategy name and
\* universe are inputs of the run and left out; of the recorder summary the
\* end time is kept)
ResultsOf(pm, rec, bars, end_time) ==
    [status |-> "completed",
     bars_processed |-> bars,
     initial_cash |-> R(InitialCash),
     final_equity |-> pm.portfolio.equity,
     final_cash |-> pm.portfolio.cash,
     total_pnl |-> SumPnl(pm.trades),
     total_return_pct |-> ReturnPct(R(InitialCash), pm.portfolio.equity),
     orders_submitted |-> Len(rec.orders),
     fills_executed |-> Len(rec.fills),
     trades_completed |-> Len(pm.trades),
     equity_curve |-> pm.equity_curve,
     trades |-> [i \in 1..Len(pm.trades) |->
                    [symbol |-> pm.trades[i].symbol,
                     entry_ts |-> pm.trades[i].entry_ts,
                     entry_price |-> pm.trades[i].entry_price,
                     exit_ts |-> pm.trades[i].exit_ts,
                     exit_price |-> pm.trades[i].exit_price,
                     qty |-> pm.trades[i].entry_qty,
                     pnl |-> pm.trades[i].pnl,
                     return_pct |-> pm.trades[i].return_pct,
                     duration |-> Duration(pm.trades[i])]],
     end_time |-> end_time]

InitRun ==
    /\ InitPM
    /\ InitTools
    /\ strategy = AnyStrategy
    /\ InitBroker({<<"simulated", 0>>})
    /\ InitRunner
    /\ ncalls = 0

\* BacktestRunner.run up to the loop: recorder.on_start, strategy.on_start,
\* _running = True
Run ==
    /\ pc = "idle"
    /\ pc' = "next_bar"
    /\ running' = TRUE
    /\ universe' = Symbols
    /\ UNCHANGED <<xcall, toolVars, strategy, pmVars, brokerVars, ncalls, bar, bar_count, current_prices, next_id,
                   fills_todo, orders_todo, recorder, results, results2, feed_ts, steps,
                   born, filled_at, applied>>

\* for bar in self.data_feed: the feed yields a bar; bar_count, current_prices,
\* recorder.on_bar (a no-op with record_bars = False)
LoopNextBar ==
    /\ pc = "next_bar"
    /\ bar_count < MaxBars
    /\ \E shape \in FeedShapes, t \in TsSet :
          /\ t >= feed_ts[shape[1]]
          /\ bar' = BarOf(t, shape)
          /\ BarValid(bar')
          /\ feed_ts' = [feed_ts EXCEPT ![shape[1]] = t]
          /\ current_prices' = DictPut(current_prices, shape[1], shape[4])
    /\ bar_count' = bar_count + 1
    /\ steps' = <<"recorder.on_bar">>
    /\ pc' = AfterStep("next_bar")
    /\ UNCHANGED <<xcall, toolVars, strategy, universe, pmVars, brokerVars, ncalls, running, next_id, fills_todo, orders_todo,
                   recorder, results, results2, born, filled_at, applied>>

\* the feed is exhausted: the loop ends and run() clears _running
LoopExhausted ==
    /\ pc = "next_bar"
    /\ pc' = "finalize"
    /\ running' = FALSE
    /\ UNCHANGED <<xcall, toolVars, strategy, universe, pmVars, brokerVars, ncalls, bar, bar_count, current_prices, next_id,
                   fills_todo, orders_todo, recorder, results, results2, feed_ts, steps,
                   born, filled_at, applied>>

\* fills = self.broker.process_bar(bar)
BrokerProcessBar ==
    /\ pc = "process_bar"
    /\ LET r == ProcessBar(broker, bar)
       IN  /\ broker' = r.broker
           /\ fills_todo' = r.fills
    /\ bcall' = [op |-> "process_bar", order |-> NoOrder, id |-> 0, bar |-> bar,
                 ret |-> FALSE, fills |-> fills_todo']
    /\ filled_at' = filled_at \o [k \in 1..Len(fills_todo') |-> bar_count]
    /\ steps' = Append(steps, "broker.process_bar")
    /\ pc' = AfterStep("process_bar")
    /\ UNCHANGED <<xcall, toolVars, strategy, universe, pmVars, ncalls, running, bar, bar_count, current_prices, next_id,
                   orders_todo, recorder, results, results2, feed_ts, born, applied>>

\* for fill in fills: recorder.on_fill(fill); portfolio_manager.apply_fill(...)
ApplyNextFill ==
    /\ pc = "apply_fills"
    /\ fills_todo # <<>>
    /\ LET fill == Head(fills_todo)
       IN  /\ recorder' = [recorder EXCEPT !.fills = Append(@, fill)]
           /\ SetPM(PMApplyFill(PM, fill, current_prices))
           /\ call' = [op |-> "apply_fill", fill |-> fill, prices |-> current_prices,
                       ts |-> fill.ts]
    /\ fills_todo' = Tail(fills_todo)
    /\ applied' = applied + 1
    /\ steps' = steps \o <<"recorder.on_fill", "apply_fill">>
    /\ UNCHANGED <<xcall, toolVars, strategy, universe, brokerVars, ncalls, pc, running, bar, bar_count, current_prices, next_id,
                   orders_todo, results, results2, feed_ts, born, filled_at>>

\* the loop over fills ends
FillsDone ==
    /\ pc = "apply_fills"
    /\ fills_todo = <<>>
    /\ pc' = AfterStep("apply_fills")
    /\ UNCHANGED <<xcall, toolVars, strategy, universe, pmVars, brokerVars, ncalls, running, bar, bar_count, current_prices,
                   next_id, fills_todo, orders_todo, recorder, results, results2, feed_ts,
                   steps, born, filled_at, applied>>

\* orders = self.strategy.on_bar(bar, self.state): the orders carry the ids
\* of id_gen and the bar's timestamp
StrategyOnBar ==
    /\ pc = "on_bar"
    /\ \E choice \in StrategyChoices :
          /\ orders_todo' = [k \in 1..Len(choice) |->
                                OrderOf(next_id + k - 1, bar.ts, choice[k])]
          /\ next_id' = next_id + Len(choice)
          /\ born' = [id \in DOMAIN born \cup (next_id..(next_id + Len(choice) - 1)) |->
                         IF id \in DOMAIN born THEN born[id] ELSE bar_count]
    /\ steps' = Append(steps, "strategy.on_bar")
    /\ pc' = AfterStep("on_bar")
    /\ UNCHANGED <<xcall, toolVars, strategy, universe, pmVars, brokerVars, ncalls, running, bar, bar_count, current_prices,
                   fills_todo, recorder, results, results2, feed_ts, filled_at, applied>>

\* faulty variant: the error leaves the loop but _running is not cleared
StrategyOnBarRaises_StillRunning ==
    /\ pc = "on_bar"
    /\ pc' = "failed"
    /\ steps' = Append(steps, "strategy.on_bar")
    /\ UNCHANGED <<xcall, toolVars, strategy, universe, pmVars, brokerVars, ncalls, running, bar, bar_count, current_prices,
                   next_id, fills_todo, orders_todo, recorder, results, results2, feed_ts,
                   born, filled_at, applied>>

\* strategy.on_bar raises: _run_loop logs and re-raises, run() clears _running
\* (except and finally) and re-raises, so _finalize is not reached and run()
\* returns nothing
StrategyOnBarRaises ==
    /\ pc = "on_bar"
    /\ pc' = "failed"
    /\ running' = FALSE
    /\ steps' = Append(steps, "strategy.on_bar")
    /\ UNCHANGED <<xcall, toolVars, strategy, universe, pmVars, brokerVars, ncalls, bar, bar_count, current_prices,
                   next_id, fills_todo, orders_todo, recorder, results, results2, feed_ts,
                   born, filled_at, applied>>

\* for order in orders: if self.broker.submit_order(order): recorder.on_order
SubmitNextOrder ==
    /\ pc = "submit"
    /\ orders_todo # <<>>
    /\ LET order == Head(orders_todo)
           r == SubmitOrder(broker, order)
       IN  /\ broker' = r.broker
           /\ bcall' = [op |-> "submit_order", order |-> [order EXCEPT !.status = r.status],
                        id |-> order.id, bar |-> NoBar, ret |-> r.ret, fills |-> <<>>]
           /\ recorder' = IF r.ret
                          THEN [recorder EXCEPT !.orders =
                                   Append(@, [order EXCEPT !.status = r.status])]
                          ELSE recorder
    /\ orders_todo' = Tail(orders_todo)
    /\ steps' = Append(steps, "broker.submit_order")
    /\ UNCHANGED <<xcall, toolVars, strategy, universe, pmVars, ncalls, pc, running, bar, bar_count, current_prices, next_id,
                   fills_todo, results, results2, feed_ts, born, filled_at, applied>>

\* the loop over orders ends
SubmitDone ==
    /\ pc = "submit"
    /\ orders_todo = <<>>
    /\ pc' = AfterStep("submit")
    /\ UNCHANGED <<xcall, toolVars, strategy, universe, pmVars, brokerVars, ncalls, running, bar, bar_count, current_prices,
                   next_id, fills_todo, orders_todo, recorder, results, results2, feed_ts,
                   steps, born, filled_at, applied>>

\* faulty variant: the portfolio is marked after every bar
PeriodicMark_EveryBar ==
    /\ pc = "mark"
    /\ SetPM(PMMarkToMarket(PM, bar.ts, current_prices))
    /\ call' = [op |-> "mark_to_market", fill |-> NoFill, prices |-> current_prices,
                ts |-> bar.ts]
    /\ steps' = Append(steps, "mark_to_market")
    /\ pc' = AfterStep("mark")
    /\ UNCHANGED <<xcall, toolVars, strategy, universe, brokerVars, ncalls, running, bar, bar_count, current_prices, next_id,
                   fills_todo, orders_todo, recorder, results, results2, feed_ts, born,
                   filled_at, applied>>

\* if bar_count % 100 == 0: portfolio_manager.mark_to_market(bar.ts, prices)
PeriodicMark ==
    /\ pc = "mark"
    /\ \/ /\ bar_count % MarkPeriod = 0
          /\ SetPM(PMMarkToMarket(PM, bar.ts, current_prices))
          /\ call' = [op |-> "mark_to_market", fill |-> NoFill, prices |-> current_prices,
                      ts |-> bar.ts]
          /\ steps' = Append(steps, "mark_to_market")
       \/ /\ bar_count % MarkPeriod # 0
          /\ UNCHANGED <<pmVars, steps>>
    /\ pc' = AfterStep("mark")
    /\ UNCHANGED <<xcall, toolVars, strategy, universe, brokerVars, ncalls, running, bar, bar_count, current_prices, next_id,
                   fills_todo, orders_todo, recorder, results, results2, feed_ts, born,
                   filled_at, applied>>

\* BacktestRunner.stop, called by another thread or a callback during the loop
Stop ==
    /\ pc \in LoopPcs
    /\ running
    /\ running' = FALSE
    /\ UNCHANGED <<xcall, toolVars, strategy, universe, pmVars, brokerVars, ncalls, pc, bar, bar_count, current_prices, next_id,
                   fills_todo, orders_todo, recorder, results, results2, feed_ts, steps,
                   born, filled_at, applied>>

\* BacktestRunner._finalize: final_ts = datetime.utcnow(); the second execution
\* of the same run reads its own clock
Finalize ==
    /\ pc = "finalize"
    /\ \E final_ts \in WallClock, final_ts2 \in WallClock :
          LET pm1 == FinalizePM(PM, current_prices, final_ts)
              pm2 == FinalizePM(PM, current_prices, final_ts2)
              rec == [recorder EXCEPT !.end_time = final_ts]
              rec2 == [recorder EXCEPT !.end_time = final_ts2]
          IN  /\ SetPM(pm1)
              /\ call' = [op |-> "mark_to_market", fill |-> NoFill,
                          prices |-> current_prices, ts |-> final_ts]
              /\ recorder' = rec
              /\ results' = ResultsOf(pm1, rec, bar_count, final_ts)
              /\ results2' = ResultsOf(pm2, rec2, bar_count, final_ts2)
    /\ pc' = "done"
    /\ UNCHANGED <<xcall, toolVars, strategy, universe, brokerVars, ncalls, running, bar, bar_count, current_prices, next_id,
                   fills_todo, orders_todo, feed_ts, steps, born, filled_at, applied>>

Next ==
    \/ Run \/ LoopNextBar \/ LoopExhausted \/ BrokerProcessBar \/ ApplyNextFill
    \/ FillsDone \/ StrategyOnBar \/ SubmitNextOrder \/ SubmitDone \/ PeriodicMark
    \/ Stop \/ Finalize \/ StrategyOnBarRaises

Spec == InitRun /\ [][Next]_vars

\* ------------------------------------------- runs of the built-in strategies
\* the runs: SmaCrossStrategy(2, 3, 1) and BuyAndHoldStrategy(1) on a
\* SimulatedBroker without slippage and fees, and BuyAndHoldStrategy(1) with
\* FixedBpsSlippage(100) and PercentageFeeModel
StrategyRuns ==
    {<<SmaCross(2, 3, R(1)), NoSlip, "none">>,
     <<BuyAndHold(R(1)), NoSlip, "none">>,
     <<BuyAndHold(R(1)), FixedBps(R(100)), "percentage">>}

\* the universes a run is started with
Universes(st) == IF st.kind = "sma_cross" THEN {{"A"}} ELSE {{"A"}, Symbols}

\* the closes of the (flat) bars the feed yields: for the moving averages four
\* closes of A, for buy-and-hold two closes of A and one of B
StrategyFeedShapes(st) ==
    IF st.kind = "sma_cross"
    THEN {<<"A", c, c, c>> : c \in {R(9), R(10), Rat(21, 2), R(11)}}
    ELSE {<<"A", R(10), R(10), R(10)>>, <<"A", R(11), R(11), R(11)>>,
          <<"B", R(10), R(10), R(10)>>}

InitStrategyRun ==
    /\ InitPM
    /\ InitTools
    /\ \E run \in StrategyRuns :
          /\ strategy = run[1]
          /\ broker = [NewBroker("simulated", 0, run[3]) EXCEPT
                         !.exec = BasicExec(run[2], run[3])]
    /\ bcall = [op |-> "none", order |-> NoOrder, id |-> 0, bar |-> NoBar,
                ret |-> FALSE, fills |-> <<>>]
    /\ xcall = NoExecCall
    /\ InitRunnerWith(NewRecorder(TRUE))
    /\ ncalls = 0

\* BacktestRunner.run up to the loop: self.universe = list(universe),
\* strategy.on_start(universe, params), _running = True
RunStrategy ==
    /\ pc = "idle"
    /\ pc' = "next_bar"
    /\ running' = TRUE
    /\ \E univ \in Universes(strategy) :
          /\ universe' = univ
          /\ strategy' = OnStart(strategy, univ)
    /\ UNCHANGED <<xcall, toolVars, pmVars, brokerVars, ncalls, bar, bar_count, current_prices, next_id,
                   fills_todo, orders_todo, recorder, results, results2, feed_ts, steps,
                   born, filled_at, applied>>

\* for bar in self.data_feed: the feed yields its next bar (timestamps count
\* the bars); bar_count, current_prices, recorder.on_bar
FeedNextBar ==
    /\ pc = "next_bar"
    /\ bar_count < MaxFeedBars
    /\ \E shape \in StrategyFeedShapes(strategy) :
          /\ bar' = BarOf(bar_count + 1, shape)
          /\ BarValid(bar')
          /\ feed_ts' = [feed_ts EXCEPT ![shape[1]] = bar_count + 1]
          /\ current_prices' = DictPut(current_prices, shape[1], shape[4])
    /\ recorder' = IF recorder.record_bars
                   THEN [recorder EXCEPT !.bars = Append(@, bar')]
                   ELSE recorder
    /\ bar_count' = bar_count + 1
    /\ steps' = <<"recorder.on_bar">>
    /\ pc' = AfterStep("next_bar")
    /\ UNCHANGED <<xcall, toolVars, strategy, universe, pmVars, brokerVars, ncalls, running, next_id,
                   fills_todo, orders_todo, results, results2, born, filled_at, applied>>

\* orders = self.strategy.on_bar(bar, self.state) of a built-in strategy;
\* state["portfolio"] is the manager's Portfolio object
BuiltinOnBar ==
    /\ pc = "on_bar"
    /\ LET r == OnBar(strategy, bar, portfolio.positions, next_id)
       IN  /\ strategy' = r.strategy
           /\ orders_todo' = r.orders
           /\ next_id' = r.next_id
           /\ portfolio' = [portfolio EXCEPT !.positions = r.positions]
           /\ born' = [id \in DOMAIN born \cup (next_id..(r.next_id - 1)) |->
                          IF id \in DOMAIN born THEN born[id] ELSE bar_count]
    /\ steps' = Append(steps, "strategy.on_bar")
    /\ pc' = AfterStep("on_bar")
    /\ UNCHANGED <<xcall, toolVars, universe, equity_curve, trades, open_trades, call, brokerVars,
                   ncalls, running, bar, bar_count, current_prices, fills_todo, recorder,
                   results, results2, feed_ts, filled_at, applied>>

\* BacktestRunner._finalize with a built-in strategy: as Finalize, and
\* strategy.on_end clears the strategy's dicts
FinalizeStrategy ==
    /\ pc = "finalize"
    /\ \E final_ts \in WallClock, final_ts2 \in WallClock :
          LET pm1 == FinalizePM(PM, current_prices, final_ts)
              pm2 == FinalizePM(PM, current_prices, final_ts2)
              rec == [recorder EXCEPT !.end_time = final_ts]
              rec2 == [recorder EXCEPT !.end_time = final_ts2]
          IN  /\ SetPM(pm1)
              /\ call' = [op |-> "mark_to_market", fill |-> NoFill,
                          prices |-> current_prices, ts |-> final_ts]
              /\ recorder' = rec
              /\ results' = ResultsOf(pm1, rec, bar_count, final_ts)
              /\ results2' = ResultsOf(pm2, rec2, bar_count, final_ts2)
    /\ strategy' = OnEnd(strategy)
    /\ pc' = "done"
    /\ UNCHANGED <<xcall, toolVars, universe, brokerVars, ncalls, running, bar, bar_count,
                   current_prices, next_id, fills_todo, orders_todo, feed_ts, steps, born,
                   filled_at, applied>>

NextStrategy ==
    \/ RunStrategy \/ FeedNextBar \/ LoopExhausted \/ BrokerProcessBar \/ ApplyNextFill
    \/ FillsDone \/ BuiltinOnBar \/ SubmitNextOrder \/ SubmitDone \/ PeriodicMark
    \/ FinalizeStrategy

SpecStrategy == InitStrategyRun /\ [][NextStrategy]_vars

\* ----------------------------------------------------- runs side by side
\* A run is the record of one BacktestRunner and of the objects it was given:
\* strategy, broker, portfolio manager, recorder and feed, with the fields of
\* self.state (id_gen as next_id, bar_count, current_prices).

\* StrategyRegistry.create(name, **kwargs): a new instance of the class
RegistryCreate(name, position_size) ==
    IF name = "sma_cross" THEN SmaCross(2, 3, position_size) ELSE BuyAndHold(position_size)

\* what a run is set up with: strategy name, slippage, fee model, universe and
\* the closes of the bars of its feed (repeated when the feed is longer)
RunConfigs ==
    {[name |-> "buy_and_hold", slip |-> NoSlip, fee |-> "none", universe |-> Symbols,
      closes |-> <<(<<"A", R(10)>>), (<<"B", R(10)>>), (<<"A", R(11)>>)>>],
     [name |-> "buy_and_hold", slip |-> FixedBps(R(100)), fee |-> "percentage",
      universe |-> {"A"},
      closes |-> <<(<<"A", R(10)>>), (<<"A", R(11)>>), (<<"A", R(10)>>)>>],
     [name |-> "sma_cross", slip |-> NoSlip, fee |-> "none", universe |-> {"A"},
      closes |-> <<(<<"A", R(9)>>), (<<"A", R(10)>>), (<<"A", R(11)>>)>>]}

\* the k-th bar of the feed of a run: flat bars, one per timestamp
FeedBar(cfg, k) ==
    LET c == cfg.closes[((k - 1) % Len(cfg.closes)) + 1]
    IN  NewBar(k, c[1], c[2], c[2], c[2], BarVolume)

\* BacktestRunner.__init__ with a strategy of the registry, a SimulatedBroker,
\* and its own PortfolioManager and EventRecorder
NewRun(cfg) ==
    [cfg |-> cfg,
     strategy |-> RegistryCreate(cfg.name, R(1)),
     broker |-> [NewBroker("simulated", 0, cfg.fee) EXCEPT
                   !.exec = BasicExec(cfg.slip, cfg.fee)],
     pm |-> NewPM(R(InitialCash)),
     recorder |-> NewRecorder(FALSE),
     next_id |-> 1, bar_count |-> 0, current_prices |-> EmptyDict,
     pc |-> "idle", results |-> NoResults]

\* BacktestRunner.run up to the loop
RunStart(run) ==
    [run EXCEPT !.strategy = OnStart(@, run.cfg.universe), !.pc = "loop"]

\* the only element of a one-element set
Only(S) == CHOOSE x \in S : TRUE

\* for fill in fills: recorder.on_fill(fill); portfolio_manager.apply_fill(...)
RECURSIVE RunApplyFills(_, _)
RunApplyFills(run, fills) ==
    IF fills = <<>> THEN run
    ELSE Only({RunApplyFills(next, Tail(fills)) :
                   next \in {[run EXCEPT
                                !.recorder.fills = Append(@, Head(fills)),
                                !.pm = PMApplyFill(@, Head(fills), run.current_prices)]}})

\* for order in orders: if self.broker.submit_order(order): recorder.on_order
RECURSIVE RunSubmitOrders(_, _)
RunSubmitOrders(run, orders) ==
    IF orders = <<>> THEN run
    ELSE Only({RunSubmitOrders(
                   [run EXCEPT
                      !.broker = r.broker,
                      !.recorder.orders =
                          IF r.ret THEN Append(@, [Head(orders) EXCEPT !.status = r.status])
                          ELSE @],
                   Tail(orders)) :
                   r \in {SubmitOrder(run.broker, Head(orders))}})

\* state["bar_count"] += 1; state["current_prices"][bar.symbol] = bar.close
\* (recorder.on_bar keeps nothing without record_bars)
RunSeeBar(run, b) ==
    [run EXCEPT !.bar_count = @ + 1,
                !.current_prices = DictPut(@, b.symbol, b.close)]

\* fills = self.broker.process_bar(bar), and the loop over the fills
RunProcessBar(run, b) ==
    Only({RunApplyFills([run EXCEPT !.broker = pb.broker], pb.fills) :
              pb \in {ProcessBar(run.broker, b)}})

\* orders = self.strategy.on_bar(bar, self.state), the ids of the orders drawn
\* from the counter id_counter, and the loop over the orders
RunOnBar(run, b, id_counter) ==
    Only({RunSubmitOrders([run EXCEPT !.strategy = ob.strategy,
                                      !.next_id = ob.next_id,
                                      !.pm.portfolio.positions = ob.positions],
                          ob.orders) :
              ob \in {OnBar(run.strategy, b, run.pm.portfolio.positions, id_counter)}})

\* if bar_count % 100 == 0: portfolio_manager.mark_to_market(bar.ts, prices)
RunMark(run, b) ==
    IF run.bar_count % MarkPeriod = 0
    THEN [run EXCEPT !.pm = PMMarkToMarket(@, b.ts, run.current_prices)]
    ELSE run

\* one iteration of BacktestRunner._run_loop: the statements of the loop body
\* one after the other, each on the run the one before left
RunBar(run, b, id_counter) ==
    Only({RunMark(r3, b) :
              r3 \in {RunOnBar(r2, b, id_counter) :
                          r2 \in {RunProcessBar(r1, b) : r1 \in {RunSeeBar(run, b)}}}})

\* BacktestRunner._finalize at the wall-clock instant final_ts
RunFinalize(run, final_ts) ==
    LET pm1 == FinalizePM(run.pm, run.current_prices, final_ts)
        rec == [run.recorder EXCEPT !.end_time = final_ts]
    IN  [run EXCEPT !.pm = pm1, !.recorder = rec, !.strategy = OnEnd(@),
                    !.results = ResultsOf(pm1, rec, run.bar_count, final_ts),
                    !.pc = "done"]

\* faulty variant: one counter, at module level, serves every runner
IdCounterOf_Shared(rs, i) ==
    CHOOSE n \in {rs[j].next_id : j \in DOMAIN rs} :
        \A j \in DOMAIN rs : rs[j].next_id <= n

\* the counter behind state["id_gen"] of the i-th run: count(1) of the closure
\* that its BacktestRunner._id_generator() returned
IdCounterOf(rs, i) == rs[i].next_id

InitTwoRuns ==
    /\ InitPM
    /\ strategy = AnyStrategy
    /\ InitBroker({<<"simulated", 0>>})
    /\ InitRunner
    /\ ncalls = 0
    /\ mcurve = <<>>
    /\ reports = <<>>
    /\ mcall = NoMetricsCall
    /\ clock = NoClock
    /\ ticks = <<>>
    /\ \E c1, c2 \in RunConfigs : runs = <<NewRun(c1), NewRun(c2)>>

\* the i-th run enters run()
StartRun(i) ==
    /\ runs[i].pc = "idle"
    /\ runs' = [runs EXCEPT ![i] = RunStart(@)]
    /\ UNCHANGED <<mcurve, reports, mcall, clockVars, xcall, ncalls, strategy, universe,
                   pmVars, brokerVars, runVars>>

\* the i-th run processes the next bar of its feed
StepRun(i) ==
    /\ runs[i].pc = "loop"
    /\ runs[i].bar_count < MaxRunBars
    /\ runs' = [runs EXCEPT ![i] = RunBar(@, FeedBar(@.cfg, @.bar_count + 1),
                                          IdCounterOf(runs, i))]
    /\ UNCHANGED <<mcurve, reports, mcall, clockVars, xcall, ncalls, strategy, universe,
                   pmVars, brokerVars, runVars>>

\* the feed of the i-th run is exhausted: _finalize
FinishRun(i) ==
    /\ runs[i].pc = "loop"
    /\ runs[i].bar_count = MaxRunBars
    /\ \E final_ts \in WallClock : runs' = [runs EXCEPT ![i] = RunFinalize(@, final_ts)]
    /\ UNCHANGED <<mcurve, reports, mcall, clockVars, xcall, ncalls, strategy, universe,
                   pmVars, brokerVars, runVars>>

NextTwoRuns == \E i \in {1, 2} : StartRun(i) \/ StepRun(i) \/ FinishRun(i)

SpecTwoRuns == InitTwoRuns /\ [][NextTwoRuns]_vars

\* ------------------------------------------------- the analytics' callers
\* equity values of the curves handed to the analytics
EquityValues == {0, 90, 100, 120, 150}

\* capital the metrics are computed against
MetricsCapital == R(100)

\* days between two consecutive equity points of a curve
SamplingPeriods == {0, 1}

\* the curves of n points: any values, sampled every `period` days
CurvesOf(n, period) ==
    { [k \in 1..n |-> [ts |-> (k - 1) * period, equity |-> R(v[k]), cash |-> R(v[k]),
                       positions_value |-> Zero]] :
          v \in [1..n -> EquityValues] }

InitMetricsAPI ==
    /\ InitPM
    /\ strategy = AnyStrategy
    /\ InitBroker({<<"simulated", 0>>})
    /\ InitRunner
    /\ ncalls = 0
    /\ \E n \in 0..MaxPoints, period \in SamplingPeriods : mcurve \in CurvesOf(n, period)
    /\ reports = <<>>
    /\ mcall = NoMetricsCall
    /\ InitIdle

\* a caller invokes PerformanceMetrics.calculate_equity_metrics(curve, capital)
CallEquityMetrics ==
    /\ mcall' = [op |-> "calculate_equity_metrics",
                 ret |-> CalculateEquityMetrics(mcurve, MetricsCapital)]
    /\ UNCHANGED <<mcurve, reports, clockVars, runs, xcall, ncalls, strategy, universe,
                   pmVars, brokerVars, runVars>>

\* a caller invokes PerformanceMetrics.calculate_drawdown_curve(curve)
CallDrawdownCurve ==
    /\ mcall' = [op |-> "calculate_drawdown_curve",
                 ret |-> CalculateDrawdownCurve(mcurve)]
    /\ UNCHANGED <<mcurve, reports, clockVars, runs, xcall, ncalls, strategy, universe,
                   pmVars, brokerVars, runVars>>

NextMetrics == CallEquityMetrics \/ CallDrawdownCurve

SpecMetrics == InitMetricsAPI /\ [][NextMetrics]_vars

\* the summary of a report as compare_strategies reads it (whole percents)
ReportSet ==
    [strategy : {"sma_cross", "buy_and_hold"}, total_return_pct : {5, 10},
     sharpe_ratio : {1, 2}, max_drawdown_pct : {-25, -10, 0}]

RECURSIVE ReportLists(_)
ReportLists(n) ==
    IF n = 0 THEN {<<>>}
    ELSE ReportLists(n - 1)
         \cup {Append(l, r) : l \in {x \in ReportLists(n - 1) : Len(x) = n - 1},
                               r \in ReportSet}

InitCompareAPI ==
    /\ InitPM
    /\ strategy = AnyStrategy
    /\ InitBroker({<<"simulated", 0>>})
    /\ InitRunner
    /\ ncalls = 0
    /\ mcurve = <<>>
    /\ reports \in ReportLists(MaxReports)
    /\ mcall = NoMetricsCall
    /\ InitIdle

\* a caller invokes compare_strategies(reports)
CallCompareStrategies ==
    /\ mcall' = [op |-> "compare_strategies", ret |-> CompareStrategies(reports)]
    /\ UNCHANGED <<mcurve, reports, clockVars, runs, xcall, ncalls, strategy, universe,
                   pmVars, brokerVars, runVars>>

NextCompare == CallCompareStrategies

SpecCompare == InitCompareAPI /\ [][NextCompare]_vars

\* ------------------------------------------------------------------ clock
\* A dict is the sequence of its items in insertion order. symbol_bars holds,
\* per symbol, the bars of the source and the number the iterator has yielded;
\* buffers holds, per symbol, the buffered bar (NoBar for None).
\* index of the key in a dict, 0 when it is missing
KeyIndex(items, sym) ==
    IF \E i \in 1..Len(items) : items[i].symbol = sym
    THEN CHOOSE i \in 1..Len(items) : items[i].symbol = sym
    ELSE 0

\* buffers[sym] = b
SetBuffer(buffers, sym, b) ==
    IF KeyIndex(buffers, sym) = 0
    THEN Append(buffers, [symbol |-> sym, bar |-> b])
    ELSE [buffers EXCEPT ![KeyIndex(buffers, sym)].bar = b]

\* MultiSymbolClock.reset: the buffers are cleared; iter(bars) of an iterator
\* is that iterator, which keeps its position
ClockReset(c) == [c EXCEPT !.buffers = <<>>]

\* MultiSymbolClock.__init__ with a dict of symbol -> iterator of bars
NewMultiSymbolClock(symbol_bars) ==
    ClockReset([symbol_bars |-> symbol_bars, buffers |-> <<>>])

\* MultiSymbolClock.tick, "fill empty buffers", from the i-th symbol on
RECURSIVE FillBuffers(_, _)
FillBuffers(c, i) ==
    IF i > Len(c.symbol_bars) THEN c
    ELSE LET src == c.symbol_bars[i]
             k == KeyIndex(c.buffers, src.symbol)
         IN  IF k = 0 \/ c.buffers[k].bar = NoBar
             THEN IF src.pos < Len(src.bars)
                  THEN FillBuffers([c EXCEPT
                                      !.symbol_bars[i].pos = @ + 1,
                                      !.buffers = SetBuffer(@, src.symbol,
                                                            src.bars[src.pos + 1])],
                                   i + 1)
                  ELSE FillBuffers([c EXCEPT
                                      !.buffers = SetBuffer(@, src.symbol, NoBar)],
                                   i + 1)
             ELSE FillBuffers(c, i + 1)

\* faulty variant: among the buffered bars of the earliest timestamp the last
EarliestSymbol_LastOfTies(buffers) ==
    CHOOSE i \in 1..Len(buffers) :
        /\ buffers[i].bar # NoBar
        /\ \A j \in 1..Len(buffers) :
               buffers[j].bar # NoBar => buffers[i].bar.ts <= buffers[j].bar.ts
        /\ \A j \in (i + 1)..Len(buffers) :
               buffers[j].bar # NoBar => buffers[i].bar.ts < buffers[j].bar.ts

\* min(active_bars.keys(), key=ts): the first of the buffered bars with the
\* least timestamp, as an index into the buffers
EarliestSymbol(buffers) ==
    CHOOSE i \in 1..Len(buffers) :
        /\ buffers[i].bar # NoBar
        /\ \A j \in 1..Len(buffers) :
               buffers[j].bar # NoBar => buffers[i].bar.ts <= buffers[j].bar.ts
        /\ \A j \in 1..(i - 1) :
               buffers[j].bar # NoBar => buffers[i].bar.ts < buffers[j].bar.ts

\* MultiSymbolClock.tick: the clock after the call and the bar returned
ClockTick(c) ==
    LET filled == FillBuffers(c, 1)
    IN  IF \A i \in 1..Len(filled.buffers) : filled.buffers[i].bar = NoBar
        THEN [clock |-> filled, bar |-> NoBar]
        ELSE LET e == EarliestSymbol(filled.buffers)
             IN  [clock |-> [filled EXCEPT !.buffers[e].bar = NoBar],
                  bar |-> filled.buffers[e].bar]

\* ---------------------------------------------------------------- schemas
TradeConsistencyError == "total_trades must equal winning_trades + losing_trades"

\* faulty variant: the winning trades alone must add up to the total
ValidateTradeConsistency_WinsOnly(total_trades, winning_trades, losing_trades) ==
    IF total_trades # winning_trades
    THEN [ok |-> FALSE, error |-> TradeConsistencyError]
    ELSE [ok |-> TRUE, error |-> ""]

\* BacktestRunResponse.validate_trade_consistency
ValidateTradeConsistency(total_trades, winning_trades, losing_trades) ==
    IF total_trades # winning_trades + losing_trades
    THEN [ok |-> FALSE, error |-> TradeConsistencyError]
    ELSE [ok |-> TRUE, error |-> ""]

\* BacktestRunResponse(...) with valid values for the other fields: the field
\* constraints ge=0 of the three counts, then the model validator
NewBacktestRunResponse(total_trades, winning_trades, losing_trades) ==
    IF total_trades < 0 \/ winning_trades < 0 \/ losing_trades < 0
    THEN [ok |-> FALSE, error |-> "Input should be greater than or equal to 0"]
    ELSE ValidateTradeConsistency(total_trades, winning_trades, losing_trades)

InitSchemaAPI ==
    /\ InitPM
    /\ InitTools
    /\ strategy = AnyStrategy
    /\ InitBroker({<<"simulated", 0>>})
    /\ InitRunner
    /\ ncalls = 0

\* a caller constructs a BacktestRunResponse
CallBacktestRunResponse ==
    /\ \E t, w, l \in (-1)..MaxTrades :
          mcall' = [op |-> "BacktestRunResponse", total_trades |-> t,
                    winning_trades |-> w, losing_trades |-> l,
                    ret |-> NewBacktestRunResponse(t, w, l)]
    /\ UNCHANGED <<mcurve, reports, clockVars, runs, xcall, ncalls, strategy, universe,
                   pmVars, brokerVars, runVars>>

NextSchema == CallBacktestRunResponse

SpecSchema == InitSchemaAPI /\ [][NextSchema]_vars

\* ------------------------------------------------------ the clock's callers
\* timestamps of the bars of the clock's sources
ClockTsSet == {1, 2, 3}

\* the timestamp lists of at most n bars
RECURSIVE TsLists(_)
TsLists(n) ==
    IF n = 0 THEN {<<>>}
    ELSE TsLists(n - 1)
         \cup {Append(l, t) : l \in {x \in TsLists(n - 1) : Len(x) = n - 1},
                               t \in ClockTsSet}

\* the source of a symbol: its k-th bar has volume k
SourceOf(sym, tss) ==
    [symbol |-> sym, pos |-> 0,
     bars |-> [k \in 1..Len(tss) |-> NewBar(tss[k], sym, R(1), R(1), R(1), R(k))]]

InitClockAPI ==
    /\ InitPM
    /\ strategy = AnyStrategy
    /\ InitBroker({<<"simulated", 0>>})
    /\ InitRunner
    /\ ncalls = 0
    /\ mcurve = <<>>
    /\ reports = <<>>
    /\ mcall = NoMetricsCall
    /\ \E order \in {<<"A", "B">>, <<"B", "A">>},
          ta \in TsLists(MaxClockBars), tb \in TsLists(MaxClockBars) :
          clock = NewMultiSymbolClock(<<SourceOf(order[1], ta), SourceOf(order[2], tb)>>)
    /\ ticks = <<>>
    /\ runs = <<>>

\* number of calls of the kind op that returned no bar
CallsWithoutBar(op) ==
    Cardinality({k \in 1..Len(ticks) : ticks[k].op = op /\ ticks[k].bar = NoBar})

\* a caller invokes clock.tick()
CallTick ==
    /\ CallsWithoutBar("tick") < MaxIdleTicks
    /\ clock' = ClockTick(clock).clock
    /\ ticks' = Append(ticks, [op |-> "tick", bar |-> ClockTick(clock).bar])
    /\ UNCHANGED <<mcurve, reports, mcall, runs, xcall, ncalls, strategy, universe,
                   pmVars, brokerVars, runVars>>

\* a caller invokes clock.reset()
CallReset ==
    /\ CallsWithoutBar("reset") < MaxResets
    /\ clock' = ClockReset(clock)
    /\ ticks' = Append(ticks, [op |-> "reset", bar |-> NoBar])
    /\ UNCHANGED <<mcurve, reports, mcall, runs, xcall, ncalls, strategy, universe,
                   pmVars, brokerVars, runVars>>

NextClock == CallTick \/ CallReset

SpecClock == InitClockAPI /\ [][NextClock]_vars

\* ------------------------------------------------- portfolio manager claims
IsApplyFillStep == ncalls' = ncalls + 1 /\ call'.op = "apply_fill"

RECURSIVE SumAtPrices(_, _, _)
SumAtPrices(positions, prices, keys) ==
    IF keys = {} THEN Zero
    ELSE LET k == CHOOSE x \in keys : TRUE
         IN  RAdd(RMul(positions[k].qty, prices[k]),
                  SumAtPrices(positions, prices, keys \ {k}))

LastPoint == equity_curve[Len(equity_curve)]

\* C1: after every apply_fill(fill, current_prices), equity = cash + the sum
\* over the held positions of qty * current price (for the held symbols that
\* current_prices prices), and the equity point the call appended carries the
\* portfolio's equity and cash with equity = cash + positions_value.
C1_EquityConservation ==
    call.op = "apply_fill" =>
        /\ (DOMAIN portfolio.positions \subseteq DOMAIN call.prices) =>
              portfolio.equity =
                  RAdd(portfolio.cash,
                       SumAtPrices(portfolio.positions, call.prices, DOMAIN portfolio.positions))
        /\ Len(equity_curve) > 0
        /\ LastPoint.ts = call.fill.ts
        /\ LastPoint.equity = portfolio.equity
        /\ LastPoint.cash = portfolio.cash
        /\ LastPoint.equity = RAdd(LastPoint.cash, LastPoint.positions_value)

\* C1 witness: a fill was applied, two positions are held, both are priced, and
\* A's current price differs from its average entry price.
C1_Witness ==
    /\ call.op = "apply_fill"
    /\ DOMAIN portfolio.positions = Symbols
    /\ DOMAIN call.prices = Symbols
    /\ portfolio.positions["A"].avg_price # call.prices["A"]

\* C2: one applied fill changes cash by -(qty*price + fee) on BUY and by
\* +(qty*price - fee) on SELL.
C2_CashBookkeeping ==
    [][IsApplyFillStep =>
          LET f == call'.fill
              gross == RMul(f.qty, f.price)
          IN  portfolio'.cash =
                  IF f.side = "BUY"
                  THEN RSub(portfolio.cash, RAdd(gross, f.fee))
                  ELSE RAdd(portfolio.cash, RSub(gross, f.fee))]_vars

\* C2 witness: BUY 2 at 50 with the 0.1% fee (0.10) was applied to the fresh
\* portfolio and took cash from 10000 to 9899.90.
C2_Witness ==
    /\ ncalls = 1
    /\ call.op = "apply_fill"
    /\ call.fill.side = "BUY" /\ call.fill.qty = R(2) /\ call.fill.price = R(50)
    /\ call.fill.fee = Rat(1, 10)
    /\ portfolio.cash = Rat(98999, 10)

\* what C3 says Position.update leaves in avg_price
C3_ExpectedAvg(old, f) ==
    LET signed == IF f.side = "BUY" THEN f.qty ELSE RNeg(f.qty)
        nq == RAdd(old.qty, signed)
    IN  IF RSign(nq) = 0 \/ RSign(nq) # RSign(old.qty)
        THEN IF RSign(nq) = 0 THEN Zero ELSE f.price
        ELSE RDiv(RAbs(RAdd(RMul(old.qty, old.avg_price), RMul(signed, f.price))),
                  RAbs(nq))

PositionOf(s) ==
    IF s \in DOMAIN portfolio.positions THEN portfolio.positions[s] ELSE NewPosition(s)

\* C3: for every position the portfolio can hold (the empty one included) and
\* every fill of its symbol, Position.update sets qty to the old quantity plus
\* the signed fill quantity and avg_price to the fill price (0 when the new
\* quantity is 0) if the sign changes or the quantity becomes zero, and to
\* |old_qty*old_avg + signed_qty*price| / |new_qty| otherwise.
C3_PositionUpdate ==
    \A f \in FillSet(1) :
        LET old == PositionOf(f.symbol)
            new == PositionUpdate(old, f)
            signed == IF f.side = "BUY" THEN f.qty ELSE RNeg(f.qty)
        IN  /\ new.qty = RAdd(old.qty, signed)
            /\ new.avg_price = C3_ExpectedAvg(old, f)

\* C3 witness: apply_fill reduced a long position without closing it: the
\* position is long and its average price is no fill price.
C3_Witness ==
    /\ call.op = "apply_fill"
    /\ call.fill.side = "SELL"
    /\ call.fill.symbol \in DOMAIN portfolio.positions
    /\ RSign(portfolio.positions[call.fill.symbol].qty) = 1
    /\ portfolio.positions[call.fill.symbol].avg_price \notin PriceSet

HasOpenTrade(s) == OpenIndex(open_trades, s) # 0
OpenTradeOf(s) == open_trades[OpenIndex(open_trades, s)]
Holds(s) == s \in DOMAIN portfolio.positions /\ portfolio.positions[s].qty # Zero

\* C5: after every apply_fill, a symbol has an open trade exactly when the
\* portfolio holds a non-zero position in it; the open trade's side is BUY for
\* a long and SELL for a short position and its entry_qty is the absolute
\* position quantity (an opening fill of either side creates the trade).
C5_OpenTradeMatchesPosition ==
    call.op = "apply_fill" =>
        \A s \in Symbols :
            /\ HasOpenTrade(s) <=> Holds(s)
            /\ HasOpenTrade(s) =>
                  /\ OpenTradeOf(s).side =
                        (IF RSign(portfolio.positions[s].qty) = 1 THEN "BUY" ELSE "SELL")
                  /\ OpenTradeOf(s).entry_qty = RAbs(portfolio.positions[s].qty)

ClosedTradeOk(t) ==
    /\ t.exit_ts # NoneTs
    /\ t.exit_qty = t.entry_qty
    /\ t.pnl = IF t.side = "BUY"
               THEN RSub(RMul(RSub(t.exit_price, t.entry_price), t.entry_qty), t.fees)
               ELSE RSub(RMul(RSub(t.entry_price, t.exit_price), t.entry_qty), t.fees)

\* C6: every trade in trades has exit_ts set, exit_qty = entry_qty and the
\* direction-aware pnl over its own fees, and a trade in trades is never
\* modified or removed by a later call.
C6_ClosedTrades ==
    /\ [](\A i \in 1..Len(trades) : ClosedTradeOk(trades[i]))
    /\ [][/\ Len(trades') >= Len(trades)
          /\ \A i \in 1..Len(trades) : trades'[i] = trades[i]]_vars

\* C6 witness: a BUY-side and a SELL-side trade are closed, one of them with a
\* non-zero exit fee, at the end of a caller's sequence of calls.
C6_Witness ==
    /\ Len(trades) >= 2
    /\ \E i, j \in 1..Len(trades) : trades[i].side = "BUY" /\ trades[j].side = "SELL"
    /\ \E i \in 1..Len(trades) : trades[i].fees # Zero /\ trades[i].pnl # Zero
    /\ ncalls = MaxCalls

\* ------------------------------------------------------------ broker claims
\* C4: every fill of the broker's fill history names exactly one accepted
\* order, that order's status is FILLED, and its symbol and side are the
\* fill's.
C4_FillHasFilledOrder ==
    \A i \in 1..Len(broker.fills) :
        LET f == broker.fills[i]
        IN  /\ Cardinality({id \in DOMAIN broker.orders : broker.orders[id].id = f.order_id}) = 1
            /\ f.order_id \in DOMAIN broker.orders
            /\ broker.orders[f.order_id].status = "filled"
            /\ broker.orders[f.order_id].symbol = f.symbol
            /\ broker.orders[f.order_id].side = f.side

\* C4 witness: a filled order was submitted again and cancelled afterwards,
\* and another order is still pending.
C4_Witness ==
    /\ Len(broker.fills) >= 1
    /\ bcall.op \in {"cancel_order", "submit_order"}
    /\ bcall.id = broker.fills[1].order_id
    /\ bcall.ret = FALSE
    /\ Len(broker.pending_orders) >= 1

\* ------------------------------------------------------------ runner claims
\* C7: two executions of run() on the same bars, strategy, parameters and
\* run_id return identical results (equity-curve timestamps and values, every
\* trade's exit_ts and duration): nothing depends on the wall clock.
C7_Deterministic ==
    pc = "done" => results = results2

EquityTsMonotone(curve) ==
    \A i \in 1..Len(curve) : \A j \in i..Len(curve) : curve[i].ts <= curve[j].ts

\* C8: for a completed run (the feed's timestamps are non-decreasing per
\* symbol) the equity curve's timestamps are non-decreasing in list order,
\* the final point included.
C8_EquityTimestampsMonotone ==
    pc = "done" => EquityTsMonotone(equity_curve)

StepRank(label) ==
    CASE label = "recorder.on_bar" -> 1
      [] label = "broker.process_bar" -> 2
      [] label = "recorder.on_fill" -> 3
      [] label = "apply_fill" -> 3
      [] label = "strategy.on_bar" -> 4
      [] label = "broker.submit_order" -> 5
      [] label = "mark_to_market" -> 6

CountOf(label) == Cardinality({i \in 1..Len(steps) : steps[i] = label})

\* the calls made so far for the current bar are in the order of the loop
StepsInOrder ==
    /\ \A i \in 1..Len(steps) : \A j \in i..Len(steps) :
           StepRank(steps[i]) <= StepRank(steps[j])
    /\ \A l \in {"recorder.on_bar", "broker.process_bar", "strategy.on_bar",
                 "mark_to_market"} : CountOf(l) <= 1
    /\ \A i \in 1..Len(steps) :
           /\ steps[i] = "recorder.on_fill" =>
                 i < Len(steps) /\ steps[i + 1] = "apply_fill"
           /\ steps[i] = "apply_fill" => i > 1 /\ steps[i - 1] = "recorder.on_fill"
    /\ Len(steps) > 0 => steps[1] = "recorder.on_bar"

\* a bar whose processing is over has had every step of the loop
BarComplete ==
    (pc \in {"next_bar", "finalize", "done"} /\ bar_count > 0) =>
        /\ CountOf("recorder.on_bar") = 1
        /\ CountOf("broker.process_bar") = 1
        /\ CountOf("strategy.on_bar") = 1
        /\ CountOf("apply_fill") = Len(bcall.fills) \/ bcall.op # "process_bar"
        /\ CountOf("mark_to_market") = (IF bar_count % MarkPeriod = 0 THEN 1 ELSE 0)

\* C9: the steps of one bar happen in the order recorder.on_bar,
\* broker.process_bar, (recorder.on_fill, apply_fill) per fill,
\* strategy.on_bar, submit_order per order, periodic mark; a fill of an order
\* is made by process_bar of a bar strictly after the bar whose on_bar
\* returned the order; and when on_bar is called every fill the broker has
\* made is applied to the portfolio.
C9_StepOrder ==
    /\ StepsInOrder
    /\ BarComplete
    /\ \A i \in 1..Len(broker.fills) :
           /\ broker.fills[i].order_id \in DOMAIN born
           /\ born[broker.fills[i].order_id] < filled_at[i]
    /\ pc = "on_bar" =>
           /\ fills_todo = <<>>
           /\ applied = Len(broker.fills)
           /\ Len(recorder.fills) = Len(broker.fills)

\* C9 witness: the loop is about to call on_bar for a bar on which two fills
\* were made and applied, of orders returned on an earlier bar.
C9_Witness ==
    /\ pc = "on_bar"
    /\ Len(bcall.fills) = 2
    /\ steps = <<"recorder.on_bar", "broker.process_bar", "recorder.on_fill", "apply_fill",
                 "recorder.on_fill", "apply_fill">>
    /\ applied = Len(broker.fills)

\* C10: once stop() has been called during the loop, no further bar is
\* taken from the feed (the bar in progress is completed and the run ends).
C10_StopEndsRun ==
    [][(pc \in LoopPcs /\ ~running) => bar_count' = bar_count]_vars

\* C11: when run() returns after the feed is exhausted no open trade is left:
\* _finalize closed every trade that was open at exhaustion at the last-seen
\* close of its symbol with exit fee 0 and appended it to trades.
C11_FinalizeClosesOpenTrades ==
    [][(pc = "finalize" /\ pc' = "done") =>
          /\ open_trades' = <<>>
          /\ \A i \in 1..Len(open_trades) :
                \E j \in (Len(trades) + 1)..Len(trades') :
                    /\ trades'[j].symbol = open_trades[i].symbol
                    /\ trades'[j].exit_price = current_prices[open_trades[i].symbol]
                    /\ trades'[j].fees = open_trades[i].fees]_vars

\* ------------------------------------------------- broker claims, continued
IsSubmitStep == ncalls' = ncalls + 1 /\ bcall'.op = "submit_order"

\* C12: submit_order of an order whose id the broker knows, or that fails
\* validation, returns False, leaves REJECTED on the submitted order and
\* changes nothing; any other order is accepted: True, PENDING, in orders and
\* in pending.
C12_SubmitOrder ==
    [][IsSubmitStep =>
          LET o == bcall'.order
          IN  IF o.id \in DOMAIN broker.orders \/ ~ValidateOrder(o)
              THEN /\ bcall'.ret = FALSE
                   /\ o.status = "rejected"
                   /\ broker' = broker
              ELSE /\ bcall'.ret = TRUE
                   /\ o.status = "pending"
                   /\ o.id \in DOMAIN broker'.orders
                   /\ broker'.orders[o.id].status = "pending"
                   /\ PendingIndex(broker'.pending_orders, o.id) # 0]_vars

IsCancelStep == ncalls' = ncalls + 1 /\ bcall'.op = "cancel_order"

IsPending(br, id) == PendingIndex(br.pending_orders, id) # 0

\* C13: cancel_order(id) returns True exactly when the order is pending, and
\* then marks it CANCELLED and takes it out of pending; otherwise it returns
\* False and changes nothing.  A cancelled order is not pending, stays
\* cancelled and has no fill made after the cancel, so a second cancel of it
\* returns False.
C13_CancelOrder ==
    /\ [][IsCancelStep =>
             LET id == bcall'.id
             IN  IF IsPending(broker, id)
                 THEN /\ bcall'.ret = TRUE
                      /\ broker'.orders[id].status = "cancelled"
                      /\ ~IsPending(broker', id)
                      /\ Len(broker'.pending_orders) = Len(broker.pending_orders) - 1
                      /\ broker'.fills = broker.fills
                      /\ \A o \in DOMAIN broker.orders \ {id} :
                             broker'.orders[o] = broker.orders[o]
                 ELSE /\ bcall'.ret = FALSE
                      /\ broker' = broker]_vars
    /\ [][\A id \in DOMAIN broker.orders :
             broker.orders[id].status = "cancelled" =>
                 /\ broker'.orders[id].status = "cancelled"
                 /\ ~IsPending(broker', id)
                 /\ \A k \in (Len(broker.fills) + 1)..Len(broker'.fills) :
                        broker'.fills[k].order_id # id]_vars
    /\ [](\A id \in DOMAIN broker.orders :
             broker.orders[id].status = "cancelled" => ~IsPending(broker, id))

\* C13 witness: process_bar ran on a bar that would have filled a cancelled
\* market order of its symbol, and made no fill.
C13_Witness ==
    /\ bcall.op = "process_bar"
    /\ bcall.fills = <<>>
    /\ \E id \in DOMAIN broker.orders :
          /\ broker.orders[id].status = "cancelled"
          /\ broker.orders[id].type = "market"
          /\ broker.orders[id].symbol = bcall.bar.symbol
    /\ broker.kind = "simulated"

IsProcessStep == ncalls' = ncalls + 1 /\ bcall'.op = "process_bar"

\* the fills of order id among the fills a step appended to the history
NewFillsOf(id) ==
    {k \in (Len(broker.fills) + 1)..Len(broker'.fills) : broker'.fills[k].order_id = id}

\* C14: an order that process_bar does not fill stays pending with status
\* PENDING; process_bar attempts every pending order of the bar's symbol (the
\* PaperBroker once the order's delay has run out) and fills it exactly when
\* the execution model returns a fill; an order leaves pending only by being
\* filled or by cancel_order.
C14_UnfilledStaysPending ==
    /\ [][IsProcessStep =>
             \A id \in DOMAIN broker.orders :
                 IsPending(broker, id) =>
                     LET order == broker.orders[id]
                         due == \/ broker.kind = "simulated"
                                \/ broker.pending_orders[PendingIndex(broker.pending_orders, id)]
                                      .bars_remaining - 1 <= 0
                         fillable == /\ order.symbol = bcall'.bar.symbol
                                     /\ due
                                     /\ Execute(broker.exec, bcall'.bar, order) # NoFill
                     IN  IF fillable
                         THEN /\ Cardinality(NewFillsOf(id)) = 1
                              /\ broker'.orders[id].status = "filled"
                              /\ ~IsPending(broker', id)
                         ELSE /\ NewFillsOf(id) = {}
                              /\ broker'.orders[id].status = "pending"
                              /\ IsPending(broker', id)]_vars
    /\ [][\A id \in DOMAIN broker.orders :
             (IsPending(broker, id) /\ ~IsPending(broker', id)) =>
                 \/ bcall'.op = "process_bar" /\ broker'.orders[id].status = "filled"
                                              /\ NewFillsOf(id) # {}
                 \/ bcall'.op = "cancel_order" /\ bcall'.id = id
                                               /\ broker'.orders[id].status = "cancelled"]_vars
    /\ [](\A id \in DOMAIN broker.orders :
             IsPending(broker, id) <=> broker.orders[id].status = "pending")

\* C14 witness: under realistic execution a bar without volume was processed
\* and the market order of its symbol is still pending, next to a limit order
\* whose price the bar did not reach.
C14_Witness ==
    /\ broker.exec.kind = "realistic"
    /\ bcall.op = "process_bar"
    /\ bcall.bar.volume = Zero
    /\ bcall.fills = <<>>
    /\ \E id \in DOMAIN broker.orders :
          /\ broker.orders[id].type = "market"
          /\ broker.orders[id].symbol = bcall.bar.symbol
          /\ IsPending(broker, id)
    /\ \E id \in DOMAIN broker.orders :
          /\ broker.orders[id].type = "limit"
          /\ broker.orders[id].symbol = bcall.bar.symbol
          /\ IsPending(broker, id)

\* the fill process_bar returned for order id, NoFill when there is none
ReturnedFillOf(id) ==
    IF \E k \in 1..Len(bcall'.fills) : bcall'.fills[k].order_id = id
    THEN bcall'.fills[CHOOSE k \in 1..Len(bcall'.fills) : bcall'.fills[k].order_id = id]
    ELSE NoFill

\* the example of C15: BUY 1 limit 100 against a bar low 99, high 101, close
\* 100, no slippage, no fees, from cash 10000
C15_Example ==
    LET b == NewBar(1, "A", R(99), R(101), R(100), BarVolume)
        order == NewOrder(1, 1, "A", "BUY", R(1), "limit", R(100))
        fill == Execute(BasicExec(NoSlip, "none"), b, order)
        pm == PMApplyFill(NewPM(R(10000)), fill, [s \in {"A"} |-> b.close])
    IN  /\ fill # NoFill
        /\ fill.qty = R(1) /\ fill.price = R(100) /\ fill.fee = Zero
        /\ pm.portfolio.cash = R(9900)
        /\ pm.portfolio.positions["A"].qty = R(1)
        /\ pm.portfolio.positions["A"].avg_price = R(100)
        /\ pm.portfolio.equity = R(10000)

\* C15: with the plain ExecutionModel (no slippage) process_bar fills a MARKET
\* order of the bar's symbol at bar.close, a LIMIT BUY exactly when bar.low <=
\* limit_price and a LIMIT SELL exactly when bar.high >= limit_price, both at
\* limit_price; and the BUY 1 limit 100 example gives cash 9900, position 1 at
\* 100, equity 10000.
C15_BasePrice ==
    /\ [][(IsProcessStep /\ broker.kind = "simulated" /\ broker.exec.kind = "basic") =>
             \A id \in DOMAIN broker.orders :
                 (IsPending(broker, id) /\ broker.orders[id].symbol = bcall'.bar.symbol) =>
                     LET order == broker.orders[id]
                         b == bcall'.bar
                         f == ReturnedFillOf(id)
                     IN  IF order.type = "market"
                         THEN f # NoFill /\ f.price = b.close
                         ELSE IF order.side = "BUY"
                              THEN IF RLe(b.low, order.limit_price)
                                   THEN f # NoFill /\ f.price = order.limit_price
                                   ELSE f = NoFill
                              ELSE IF RLe(order.limit_price, b.high)
                                   THEN f # NoFill /\ f.price = order.limit_price
                                   ELSE f = NoFill]_vars
    /\ []C15_Example

\* C15 witness: a LIMIT BUY whose limit_price is the bar's low was filled at
\* its limit while a LIMIT SELL above the bar's high stayed pending.
C15_Witness ==
    /\ broker.kind = "simulated" /\ broker.exec.kind = "basic"
    /\ bcall.op = "process_bar"
    /\ \E k \in 1..Len(bcall.fills) :
          LET order == broker.orders[bcall.fills[k].order_id]
          IN  /\ order.type = "limit" /\ order.side = "BUY"
              /\ order.limit_price = bcall.bar.low
              /\ bcall.fills[k].price = order.limit_price
    /\ \E id \in DOMAIN broker.orders :
          /\ IsPending(broker, id)
          /\ broker.orders[id].type = "limit" /\ broker.orders[id].side = "SELL"
          /\ broker.orders[id].symbol = bcall.bar.symbol
          /\ RLt(bcall.bar.high, broker.orders[id].limit_price)

\* the number of fills the broker holds for order id
FillCount(br, id) == Cardinality({k \in 1..Len(br.fills) : br.fills[k].order_id = id})

\* C16: under RealisticExecutionModel every fill process_bar returns has qty
\* min(order.qty, max_fill_pct * bar.volume) (order 5, volume 10, 0.1: qty 1),
\* its order is FILLED and no longer pending even when that is less than
\* order.qty, and no order ever has more than one fill.
C16_VolumeCap ==
    /\ [][(IsProcessStep /\ broker.exec.kind = "realistic") =>
             \A k \in 1..Len(bcall'.fills) :
                 LET f == bcall'.fills[k]
                     order == broker.orders[f.order_id]
                     cap == RMul(broker.exec.max_fill_pct, bcall'.bar.volume)
                 IN  /\ f.qty = (IF RLe(order.qty, cap) THEN order.qty ELSE cap)
                     /\ (order.qty = R(5) /\ bcall'.bar.volume = R(10)
                           /\ broker.exec.max_fill_pct = Rat(1, 10)) => f.qty = R(1)
                     /\ broker'.orders[f.order_id].status = "filled"
                     /\ ~IsPending(broker', f.order_id)]_vars
    /\ [](\A id \in DOMAIN broker.orders : FillCount(broker, id) <= 1)
    /\ [][\A id \in DOMAIN broker.orders :
             FillCount(broker, id) = 1 => FillCount(broker', id) = 1]_vars

\* C16 witness: an order of 5 got one fill of 1 on a bar of volume 10, is
\* FILLED and not pending, and a later bar deep enough for the remainder has
\* been processed without another fill.
C16_Witness ==
    /\ broker.exec.kind = "realistic"
    /\ bcall.op = "process_bar" /\ bcall.fills = <<>>
    /\ bcall.bar.symbol = "A" /\ bcall.bar.volume = BarVolume
    /\ \E id \in DOMAIN broker.orders :
          /\ broker.orders[id].qty = R(5) /\ broker.orders[id].symbol = "A"
          /\ broker.orders[id].status = "filled"
          /\ ~IsPending(broker, id)
          /\ FillCount(broker, id) = 1
          /\ \E k \in 1..Len(broker.fills) :
                /\ broker.fills[k].order_id = id
                /\ broker.fills[k].qty = R(1)
                /\ broker.fills[k].ts < bcall.bar.ts

\* C17: every slippage model returns a non-negative price for a non-negative
\* base price, whatever the side, the order quantity and the bar volume, and
\* slippage never makes execute fail when it constructs the Fill.
C17_SlippageNonNegative ==
    /\ (xcall.op = "apply" /\ RLe(Zero, xcall.base_price)) => RLe(Zero, xcall.price)
    /\ xcall.op = "execute" => ~xcall.raised

\* C18: when strategy.on_bar raises on bar k, run() ends in failure with
\* _running false, having returned no results and done nothing of _finalize
\* (no force-close, no final mark, no recorder.on_end); every fill made up to
\* bar k has been applied, the failing step itself leaves cash, positions,
\* equity points and trades as they were, and nothing changes afterwards (no
\* later bar is processed).
C18_OnBarFailure ==
    /\ [](pc = "failed" =>
             /\ ~running
             /\ results = NoResults
             /\ recorder.end_time = NoneTs
             /\ fills_todo = <<>>
             /\ applied = Len(broker.fills))
    /\ [][(pc = "on_bar" /\ pc' = "failed") =>
             /\ UNCHANGED <<portfolio, equity_curve, trades, open_trades>>
             /\ UNCHANGED <<bar_count, broker, recorder>>]_vars
    /\ [][pc = "failed" =>
             /\ pc' = "failed"
             /\ UNCHANGED <<portfolio, equity_curve, trades, open_trades>>
             /\ UNCHANGED <<bar_count, broker, recorder, results>>]_vars

\* C18 witness: on_bar raised on a bar after fills had been applied (a trade
\* is open and cash has moved), and the run is over without results.
C18_Witness ==
    /\ pc = "failed"
    /\ bar_count >= 2
    /\ applied >= 1
    /\ open_trades # <<>>
    /\ portfolio.cash # R(InitialCash)
    /\ results = NoResults

\* the closes of the bars the recorder has seen
RecordedCloses == [k \in 1..Len(recorder.bars) |-> recorder.bars[k].close]

\* the run of SmaCrossStrategy(2, 3, 1) over closes 10, 10.5, 11, 10, 9 is over
SmaRoundTripDone ==
    /\ pc = "done"
    /\ strategy.kind = "sma_cross"
    /\ RecordedCloses = <<R(10), Rat(21, 2), R(11), R(10), R(9)>>

\* C19: SmaCrossStrategy(2, 3, 1) over closes 10, 10.5, 11, 10, 9 without
\* slippage and fees gets a BUY of 1 filled at 11 on bar 3 and a SELL of 1
\* filled at 9 on bar 5, and exactly one closed trade with pnl -2 and
\* return_pct (-2/11)*100.
C19_SmaRoundTrip ==
    SmaRoundTripDone =>
        /\ Len(recorder.fills) = 2
        /\ recorder.fills[1].side = "BUY" /\ recorder.fills[1].qty = R(1)
        /\ recorder.fills[1].price = R(11) /\ recorder.fills[1].ts = 3
        /\ recorder.fills[2].side = "SELL" /\ recorder.fills[2].qty = R(1)
        /\ recorder.fills[2].price = R(9) /\ recorder.fills[2].ts = 5
        /\ Len(trades) = 1
        /\ trades[1].pnl = R(-2)
        /\ trades[1].return_pct = Rat(-200, 11)

\* what the run of C19 yields instead: the BUY returned on bar 3 is filled on
\* bar 4 at its close 10, the SELL returned on bar 4 on bar 5 at 9
C19_Observed ==
    SmaRoundTripDone =>
        /\ Len(recorder.fills) = 2
        /\ recorder.fills[1].side = "BUY" /\ recorder.fills[1].qty = R(1)
        /\ recorder.fills[1].price = R(10) /\ recorder.fills[1].ts = 4
        /\ recorder.fills[2].side = "SELL" /\ recorder.fills[2].qty = R(1)
        /\ recorder.fills[2].price = R(9) /\ recorder.fills[2].ts = 5
        /\ Len(trades) = 1
        /\ trades[1].pnl = R(-1)
        /\ trades[1].return_pct = R(-10)

\* the number of recorded bars of symbol s (the bar being processed included)
BarsOf(s) == Cardinality({k \in 1..Len(recorder.bars) : recorder.bars[k].symbol = s})

\* a finished buy-and-hold run over bars of A only whose order was filled
BuyAndHoldFilled ==
    /\ pc = "done"
    /\ strategy.kind = "buy_and_hold"
    /\ universe = {"A"}
    /\ \A k \in 1..Len(recorder.bars) : recorder.bars[k].symbol = "A"
    /\ Len(recorder.fills) = 1

\* C20: BuyAndHoldStrategy.on_bar returns one MARKET BUY of position_size on
\* the first bar of each universe symbol and nothing on any other bar; and in
\* a single-symbol run whose order filled the final equity is initial_cash -
\* qty*entry_price*(1 + slip) - fee + qty*last_close, entry_price being the
\* base price (the close of the bar the fill was made on).
C20_BuyAndHold ==
    /\ [][(pc = "on_bar" /\ pc' = "submit" /\ strategy.kind = "buy_and_hold") =>
             IF bar.symbol \in universe /\ BarsOf(bar.symbol) = 1
             THEN /\ Len(orders_todo') = 1
                  /\ orders_todo'[1].symbol = bar.symbol
                  /\ orders_todo'[1].side = "BUY"
                  /\ orders_todo'[1].type = "market"
                  /\ orders_todo'[1].qty = strategy.position_size
             ELSE orders_todo' = <<>>]_vars
    /\ [](BuyAndHoldFilled =>
             LET fill == recorder.fills[1]
                 qty == fill.qty
                 entry_price == recorder.bars[fill.ts].close
                 slip == RDiv(broker.exec.slip.bps, R(10000))
                 last_close == recorder.bars[Len(recorder.bars)].close
                 expected == RAdd(RSub(RSub(R(InitialCash),
                                            RMul(RMul(qty, entry_price), RAdd(R(1), slip))),
                                       fill.fee),
                                  RMul(qty, last_close))
             IN  /\ portfolio.equity = expected
                 /\ results.final_equity = expected)

\* C20 witness: a buy-and-hold run with slippage and fees over three or more
\* bars of A, bought at a close of 10 and ended at a close of 11.
C20_Witness ==
    /\ BuyAndHoldFilled
    /\ broker.exec.slip.kind = "fixed_bps"
    /\ recorder.fills[1].fee # Zero
    /\ Len(recorder.bars) >= 3
    /\ recorder.bars[recorder.fills[1].ts].close = R(10)
    /\ recorder.bars[Len(recorder.bars)].close = R(11)
    /\ Cardinality(DOMAIN broker.orders) = 1

\* the strategy has returned no order so far (id_gen was never called)
NoOrderSoFar == next_id = 1 /\ orders_todo = <<>>

\* C21: as long as the strategy has returned no order, whatever the feed
\* (the empty one included), there is no fill, cash is the initial capital,
\* every equity point shows the initial cash as equity, and so does the
\* final_equity of the results.
C21_NoOrdersNoChange ==
    NoOrderSoFar =>
        /\ broker.fills = <<>> /\ recorder.fills = <<>> /\ fills_todo = <<>>
        /\ portfolio.cash = R(InitialCash)
        /\ \A k \in 1..Len(equity_curve) :
              /\ equity_curve[k].equity = R(InitialCash)
              /\ equity_curve[k].cash = R(InitialCash)
        /\ pc = "done" => results.final_equity = R(InitialCash)

\* C21 witness: a run over the whole feed without an order has finished, with
\* a periodic and a final equity point.
C21_Witness ==
    /\ NoOrderSoFar
    /\ pc = "done"
    /\ bar_count = MaxBars
    /\ Len(equity_curve) >= 2
    /\ results.final_equity = R(InitialCash)

\* C21 witness: the run over the empty feed has finished.
C21_WitnessEmptyFeed ==
    NoOrderSoFar /\ pc = "done" /\ bar_count = 0 /\ Len(equity_curve) = 1

\* ---------------------------------------------------------- analytics claims
MetricsReturned == mcall.op = "calculate_equity_metrics"

\* the equity values of the curve the analytics were handed
CurveValues == [k \in 1..Len(mcurve) |-> mcurve[k].equity]

DrawdownExample ==
    /\ CurveValues = <<R(100), R(120), R(90), R(150), R(100)>>
    /\ \A k \in 1..Len(mcurve) : mcurve[k].ts = k - 1

\* C22 as stated: for the equity sequence [100, 120, 90, 150, 100] at daily
\* timestamps calculate_equity_metrics reports max_drawdown = -0.25.
C22_AsStated ==
    (MetricsReturned /\ DrawdownExample)
        => (~mcall.ret.raised /\ mcall.ret.max_drawdown = Rat(-1, 4))

\* C22: for the equity sequence [100, 120, 90, 150, 100] at daily timestamps
\* calculate_equity_metrics reports max_drawdown = (100-150)/150 = -1/3, the
\* fall from the peak 150 to the last point, which is deeper than the fall
\* (90-120)/120 = -0.25 from the earlier peak.
C22_DrawdownExample ==
    (MetricsReturned /\ DrawdownExample)
        => /\ ~mcall.ret.raised
           /\ mcall.ret.max_drawdown = Rat(-1, 3)
           /\ RLt(mcall.ret.max_drawdown, Rat(-1, 4))

C22_Witness == MetricsReturned /\ DrawdownExample /\ ~mcall.ret.raised

\* C24: for every equity curve (zero equity values, also as the first point
\* or the running maximum, fewer than two points, no negative return, a zero
\* time span) calculate_equity_metrics and calculate_drawdown_curve return
\* defined values and never raise: a curve of fewer than two points gives the
\* empty metrics, and every drawdown of the curve is a value in [-1, 0].
C24_NeverRaises ==
    /\ MetricsReturned =>
           /\ ~mcall.ret.raised
           /\ Len(mcurve) < 2 => mcall.ret = EmptyMetrics
    /\ mcall.op = "calculate_drawdown_curve" =>
           /\ Len(mcall.ret) = Len(mcurve)
           /\ \A k \in 1..Len(mcall.ret) :
                  RLe(R(-1), mcall.ret[k].drawdown) /\ RLe(mcall.ret[k].drawdown, Zero)


CompareReturned == mcall.op = "compare_strategies" /\ reports # <<>>

\* C23: over any non-empty list of reports compare_strategies names as
\* lowest_drawdown a strategy whose max_drawdown_pct is the greatest (least
\* negative), as best_return one with the greatest total_return_pct and as
\* best_sharpe one with the greatest sharpe_ratio.
C23_CompareStrategies ==
    CompareReturned =>
        \A k \in 1..Len(reports) :
            /\ \E i \in 1..Len(reports) :
                   /\ reports[i].strategy = mcall.ret.lowest_drawdown
                   /\ reports[k].max_drawdown_pct <= reports[i].max_drawdown_pct
            /\ \E i \in 1..Len(reports) :
                   /\ reports[i].strategy = mcall.ret.best_return
                   /\ reports[k].total_return_pct <= reports[i].total_return_pct
            /\ \E i \in 1..Len(reports) :
                   /\ reports[i].strategy = mcall.ret.best_sharpe
                   /\ reports[k].sharpe_ratio <= reports[i].sharpe_ratio

\* ---------------------------------------------------------------- clock claims
NoResetSoFar == \A k \in 1..Len(ticks) : ticks[k].op = "tick"

\* every per-symbol source is non-decreasing in timestamp
SourcesSorted ==
    \A i \in 1..Len(clock.symbol_bars) :
        \A k \in 1..(Len(clock.symbol_bars[i].bars) - 1) :
            clock.symbol_bars[i].bars[k].ts <= clock.symbol_bars[i].bars[k + 1].ts

\* the bars the ticks returned so far, in order
ReturnedBars ==
    LET IsBar(t) == t.op = "tick" /\ t.bar # NoBar
        hits == SelectSeq(ticks, IsBar)
    IN  [k \in 1..Len(hits) |-> hits[k].bar]

AllSourceBars ==
    UNION {{clock.symbol_bars[i].bars[k] : k \in 1..Len(clock.symbol_bars[i].bars)} :
               i \in 1..Len(clock.symbol_bars)}

\* the bar at the head of the i-th symbol: the buffered one, else the next the
\* source yields, else none
HeadBar(i) ==
    LET src == clock.symbol_bars[i]
        k == KeyIndex(clock.buffers, src.symbol)
    IN  IF k # 0 /\ clock.buffers[k].bar # NoBar THEN clock.buffers[k].bar
        ELSE IF src.pos < Len(src.bars) THEN src.bars[src.pos + 1]
        ELSE NoBar

\* the head with the earliest timestamp, the first in symbol order on a tie
EarliestHead ==
    IF \A i \in 1..Len(clock.symbol_bars) : HeadBar(i) = NoBar THEN NoBar
    ELSE HeadBar(CHOOSE i \in 1..Len(clock.symbol_bars) :
                     /\ HeadBar(i) # NoBar
                     /\ \A j \in 1..Len(clock.symbol_bars) :
                            HeadBar(j) # NoBar => HeadBar(i).ts <= HeadBar(j).ts
                     /\ \A j \in 1..(i - 1) :
                            HeadBar(j) # NoBar => HeadBar(i).ts < HeadBar(j).ts)

LastTick == ticks[Len(ticks)]

C26_TickState ==
    (NoResetSoFar /\ SourcesSorted) =>
        /\ \A j, k \in 1..Len(ReturnedBars) : j < k =>
               /\ ReturnedBars[j] # ReturnedBars[k]
               /\ ReturnedBars[j].ts <= ReturnedBars[k].ts
        /\ \A k \in 1..Len(ReturnedBars) : ReturnedBars[k] \in AllSourceBars
        /\ (ticks # <<>> /\ LastTick.bar = NoBar) =>
               /\ Len(ReturnedBars) = Cardinality(AllSourceBars)
               /\ \A i \in 1..Len(clock.symbol_bars) :
                      clock.symbol_bars[i].pos = Len(clock.symbol_bars[i].bars)
               /\ \A i \in 1..Len(clock.buffers) : clock.buffers[i].bar = NoBar

C26_TickStep ==
    (NoResetSoFar /\ SourcesSorted /\ Len(ticks') = Len(ticks) + 1
         /\ ticks'[Len(ticks')].op = "tick")
        => ticks'[Len(ticks')].bar = EarliestHead

\* C26: with every per-symbol source non-decreasing in timestamp, each tick
\* of a MultiSymbolClock returns the head bar with the earliest timestamp
\* among the symbols that still have one, the first in symbol order on a tie;
\* every bar of every source is returned exactly once, the returned
\* timestamps never decrease, and tick returns none only when every source
\* is exhausted and every buffer is empty.
C26_MultiSymbolTick == []C26_TickState /\ [][C26_TickStep]_vars

\* all bars were returned, two of them tied in timestamp across the symbols,
\* and the last tick returned none
C26_Witness ==
    /\ NoResetSoFar /\ SourcesSorted
    /\ ticks # <<>> /\ LastTick.bar = NoBar
    /\ Len(ReturnedBars) = 2 * MaxClockBars
    /\ \E k \in 1..(Len(ReturnedBars) - 1) :
           /\ ReturnedBars[k].ts = ReturnedBars[k + 1].ts
           /\ ReturnedBars[k].symbol # ReturnedBars[k + 1].symbol

\* --------------------------------------------------------------- schema claims
ResponseBuilt == mcall.op = "BacktestRunResponse"

\* C27: constructing a BacktestRunResponse succeeds only if total_trades =
\* winning_trades + losing_trades; for all non-negative counts that violate
\* the equation the validation fails with the error 'total_trades must equal
\* winning_trades + losing_trades' and no object is produced.
C27_TradeConsistency ==
    ResponseBuilt =>
        /\ mcall.ret.ok => mcall.total_trades = mcall.winning_trades + mcall.losing_trades
        /\ (/\ mcall.total_trades >= 0 /\ mcall.winning_trades >= 0
            /\ mcall.losing_trades >= 0
            /\ mcall.total_trades # mcall.winning_trades + mcall.losing_trades)
               => (~mcall.ret.ok /\ mcall.ret.error = TradeConsistencyError)

\* a response with a losing trade too many was refused
C27_Witness ==
    /\ ResponseBuilt
    /\ mcall.total_trades = 3 /\ mcall.winning_trades = 2 /\ mcall.losing_trades = 2
    /\ ~mcall.ret.ok

\* a response with consistent counts, some of them losing trades, was built
C27_WitnessBuilt ==
    /\ ResponseBuilt
    /\ mcall.total_trades = 3 /\ mcall.winning_trades = 2 /\ mcall.losing_trades = 1
    /\ mcall.ret.ok

\* ------------------------------------------------------ trade tracking claims
\* the fill of the apply_fill call that this step makes
StepFill == call'.fill

\* the open trade of the fill's symbol before the call (index 0: none)
StepOpenIndex == OpenIndex(open_trades, StepFill.symbol)

\* apply_fill with a fill that opposes the open trade of its symbol
OpposingFillStep ==
    /\ IsApplyFillStep
    /\ StepOpenIndex # 0
    /\ open_trades[StepOpenIndex].side # StepFill.side

\* the open trades of the other symbols are the same, in the same order
OtherOpenTradesKept ==
    LET Other(t) == t.symbol # StepFill.symbol
    IN  SelectSeq(open_trades', Other) = SelectSeq(open_trades, Other)

C28_Step ==
    (OpposingFillStep /\ RLe(open_trades[StepOpenIndex].entry_qty, StepFill.qty)) =>
        LET ot == open_trades[StepOpenIndex]
            closed == trades'[Len(trades')]
            k == OpenIndex(open_trades', StepFill.symbol)
        IN  /\ trades' = Append(trades, closed)
            /\ closed = [ot EXCEPT !.exit_ts = closed.exit_ts, !.pnl = closed.pnl,
                                   !.return_pct = closed.return_pct,
                                   !.exit_price = StepFill.price,
                                   !.exit_qty = ot.entry_qty,
                                   !.fees = RAdd(ot.fees, StepFill.fee)]
            /\ OtherOpenTradesKept
            /\ IF RLt(ot.entry_qty, StepFill.qty)
               THEN /\ k # 0
                    /\ open_trades'[k].side = StepFill.side
                    /\ open_trades'[k].entry_price = StepFill.price
                    /\ open_trades'[k].entry_qty = RSub(StepFill.qty, ot.entry_qty)
                    /\ open_trades'[k].fees = Zero
                    /\ open_trades'[k].exit_ts = NoneTs
               ELSE k = 0

\* C28: when a fill opposes the open trade of its symbol and fill.qty >= the
\* trade's entry_qty, the trade is closed with exit_price = fill.price,
\* exit_qty = its entry_qty and the whole fill.fee added to its fees, and is
\* appended to trades; if fill.qty is strictly greater a new open trade
\* replaces it with side = fill.side, entry_price = fill.price, entry_qty =
\* fill.qty minus the closed quantity and fees = 0; if equal, no open trade
\* remains for the symbol.
C28_Reversal == [][C28_Step]_vars

\* a long trade of one unit was reversed by a sale of two: one short unit is open
C28_Witness ==
    /\ call.op = "apply_fill" /\ call.fill.side = "SELL" /\ call.fill.qty = R(2)
    /\ Len(trades) = 1 /\ trades[1].side = "BUY" /\ trades[1].exit_qty = R(1)
    /\ trades[1].exit_ts = call.fill.ts
    /\ Len(open_trades) = 1 /\ open_trades[1].side = "SELL"
    /\ open_trades[1].entry_qty = R(1) /\ open_trades[1].entry_ts = call.fill.ts

\* a long trade of two units was closed by a sale of two: no trade is open
C28_WitnessExact ==
    /\ call.op = "apply_fill" /\ call.fill.side = "SELL" /\ call.fill.qty = R(2)
    /\ Len(trades) = 1 /\ trades[1].exit_qty = R(2)
    /\ trades[1].exit_ts = call.fill.ts
    /\ open_trades = <<>>

C29_Step ==
    (OpposingFillStep /\ RLt(StepFill.qty, open_trades[StepOpenIndex].entry_qty)) =>
        /\ trades' = trades
        /\ open_trades' = [open_trades EXCEPT
                              ![StepOpenIndex].entry_qty = RSub(@, StepFill.qty)]

\* C29: when a fill opposes the open trade of its symbol and fill.qty < the
\* trade's entry_qty, the trade's entry_qty is reduced by fill.qty and nothing
\* else of the trade tracking changes: trades is unchanged, and the open
\* trade keeps its side, entry_ts and entry_price and stays open.
C29_PartialClose == [][C29_Step]_vars

\* a long trade of two units was reduced to one by a sale of one
C29_Witness ==
    /\ call.op = "apply_fill" /\ call.fill.side = "SELL" /\ call.fill.qty = R(1)
    /\ trades = <<>>
    /\ Len(open_trades) = 1 /\ open_trades[1].side = "BUY"
    /\ open_trades[1].entry_qty = R(1) /\ open_trades[1].entry_ts < call.fill.ts
    /\ open_trades[1].symbol = call.fill.symbol

IsCloseAllStep == ncalls' = ncalls + 1 /\ call'.op = "close_all_positions"

C30_Step ==
    IsCloseAllStep =>
        /\ open_trades' = <<>>
        /\ Len(trades') = Len(trades) + Len(open_trades)
        /\ SubSeq(trades', 1, Len(trades)) = trades
        /\ \A k \in 1..Len(open_trades) :
               /\ open_trades[k].symbol \in DOMAIN call'.prices
               /\ trades'[Len(trades) + k] =
                      TradeClose(open_trades[k], call'.ts,
                                 call'.prices[open_trades[k].symbol],
                                 open_trades[k].entry_qty, Zero)

\* C30: close_all_positions(ts, prices), called in any state and with any
\* prices mapping, closes every open trade with exit_ts = ts, the supplied
\* price of its symbol and exit fee 0, appends each of them to trades (the
\* list it returns), and leaves open_trades empty.
C30_CloseAll == [][C30_Step]_vars

\* ------------------------------------------------------------ isolation claim
\* the run of the configuration cfg, alone, after k bars of its feed
RECURSIVE Alone(_, _)
Alone(cfg, k) ==
    IF k = 0 THEN RunStart(NewRun(cfg))
    ELSE Only({RunBar(before, FeedBar(cfg, k), before.next_id) :
                   before \in {Alone(cfg, k - 1)}})

\* C25: two runs, each with its own strategy instance, broker, feed,
\* portfolio manager and recorder, whose per-bar steps are interleaved in any
\* order, are each at every moment in the state, and end with the results,
\* that the run reaches alone (finalized at the same wall-clock instant): no
\* step of one run reads or writes state of the other.
C25_RunsIsolated ==
    \A i \in DOMAIN runs :
        CASE runs[i].pc = "idle" -> runs[i] = NewRun(runs[i].cfg)
          [] runs[i].pc = "loop" -> runs[i] = Alone(runs[i].cfg, runs[i].bar_count)
          [] runs[i].pc = "done" ->
                 /\ runs[i] = RunFinalize(Alone(runs[i].cfg, MaxRunBars),
                                          runs[i].results.end_time)
                 /\ runs[i].results =
                        RunFinalize(Alone(runs[i].cfg, MaxRunBars),
                                    runs[i].results.end_time).results

\* the second run was started and finished, with orders filled, while the
\* first, with fills of its own, is in the middle of its feed
C25_Witness ==
    /\ runs # <<>>
    /\ runs[1].pc = "loop" /\ runs[1].bar_count = 2 /\ runs[1].recorder.fills # <<>>
    /\ runs[2].pc = "done" /\ runs[2].results.fills_executed > 0

\* ------------------------------------------------- broker claims, continued
IsProcessBarStep == ncalls' = ncalls + 1 /\ bcall'.op = "process_bar"

\* the pending entries of the bar's symbol before the call, in submission order
StepSymbolOrders ==
    LET OnSymbol(p) == broker.orders[p.id].symbol = bcall'.bar.symbol
    IN  SelectSeq(broker.pending_orders, OnSymbol)

\* what the execution model gives for the k-th of them on the bar
StepAttempt(k) == Execute(broker.exec, bcall'.bar, broker.orders[StepSymbolOrders[k].id])

\* the fills of the attempts that succeed, in submission order
StepExpectedFills ==
    LET idx == {k \in 1..Len(StepSymbolOrders) : StepAttempt(k) # NoFill}
        RECURSIVE Collect(_)
        Collect(k) == IF k > Len(StepSymbolOrders) THEN <<>>
                      ELSE (IF k \in idx THEN <<StepAttempt(k)>> ELSE <<>>) \o Collect(k + 1)
    IN  Collect(1)

C31_Step ==
    (IsProcessBarStep /\ broker.kind = "simulated") =>
        LET filled == {bcall'.fills[k].order_id : k \in 1..Len(bcall'.fills)}
            Kept(p) == p.id \notin filled
        IN  /\ bcall'.fills = StepExpectedFills
            /\ broker'.fills = broker.fills \o bcall'.fills
            /\ broker'.pending_orders = SelectSeq(broker.pending_orders, Kept)
            /\ DOMAIN broker'.orders = DOMAIN broker.orders
            /\ \A id \in DOMAIN broker.orders :
                   broker'.orders[id] =
                       IF id \in filled THEN [broker.orders[id] EXCEPT !.status = "filled"]
                       ELSE broker.orders[id]
            /\ \A id \in filled :
                   /\ broker.orders[id].symbol = bcall'.bar.symbol
                   /\ PendingIndex(broker.pending_orders, id) # 0

\* C31: SimulatedBroker.process_bar(bar) attempts exactly the pending orders
\* of the bar's symbol, in the order they were submitted; the list of fills
\* it returns and the fills it appends to the history are in that order; each
\* filled order becomes FILLED and leaves pending within the call; pending
\* orders of other symbols are left unchanged.
C31_ProcessBarOrder == [][C31_Step]_vars

\* one call filled two orders of A, the older first, and left an order of B pending
C31_Witness ==
    /\ broker.kind = "simulated"
    /\ bcall.op = "process_bar" /\ bcall.bar.symbol = "A"
    /\ Len(bcall.fills) = 2 /\ bcall.fills[1].order_id < bcall.fills[2].order_id
    /\ Len(broker.pending_orders) = 1
    /\ broker.orders[broker.pending_orders[1].id].symbol = "B"

\* the delay counter of a pending order (it is pending in the broker br)
CounterOf(br, id) == br.pending_orders[PendingIndex(br.pending_orders, id)].bars_remaining

IsPendingIn(br, id) == PendingIndex(br.pending_orders, id) # 0

StepFilledIds == {bcall'.fills[k].order_id : k \in 1..Len(bcall'.fills)}

\* a process_bar call of a paper broker, seen from each order pending before it
C32_ProcessBarStep ==
    (IsProcessBarStep /\ broker.kind = "paper") =>
        \A k \in 1..Len(broker.pending_orders) :
            LET id == broker.pending_orders[k].id
                n == broker.pending_orders[k].bars_remaining
                order == broker.orders[id]
            IN  IF order.symbol # bcall'.bar.symbol
                THEN /\ id \notin StepFilledIds
                     /\ IsPendingIn(broker', id)
                     /\ CounterOf(broker', id) = n
                ELSE IF n - 1 > 0
                THEN /\ id \notin StepFilledIds
                     /\ IsPendingIn(broker', id)
                     /\ CounterOf(broker', id) = n - 1
                ELSE IF Execute(broker.exec, bcall'.bar, order) # NoFill
                THEN /\ id \in StepFilledIds
                     /\ ~IsPendingIn(broker', id)
                ELSE /\ id \notin StepFilledIds
                     /\ IsPendingIn(broker', id)
                     /\ CounterOf(broker', id) = n - 1

\* no other call touches a counter, and an accepted order starts at the delay
C32_OtherStep ==
    (ncalls' = ncalls + 1 /\ bcall'.op # "process_bar" /\ broker.kind = "paper") =>
        \A id \in DOMAIN broker'.orders :
            IsPendingIn(broker', id) =>
                CounterOf(broker', id) =
                    IF IsPendingIn(broker, id) THEN CounterOf(broker, id)
                    ELSE broker.delay

\* C32: a PaperBroker order submitted with order_delay_bars = d has its
\* counter decremented once per process_bar call whose bar is of the order's
\* symbol and on no other call; it cannot be filled before the call at which
\* the counter reaches zero; matching is attempted on that call and on every
\* later matching call while the order is pending.
C32_PaperDelay == [][C32_ProcessBarStep /\ C32_OtherStep]_vars

\* delay 2: submitted, a first matching bar without a fill, filled on the second
C32_Witness ==
    /\ broker.kind = "paper" /\ broker.delay = PaperDelay + 1
    /\ ncalls = 3 /\ bcall.op = "process_bar"
    /\ Len(bcall.fills) = 1 /\ Len(broker.fills) = 1

\* ------------------------------------------------- runner claims, continued
\* the equity curve changes only by one point appended: by an applied fill
\* at the fill's timestamp, by the periodic mark at the bar's timestamp, or
\* by the final mark
C33_Step ==
    (equity_curve' # equity_curve) =>
        /\ Len(equity_curve') = Len(equity_curve) + 1
        /\ SubSeq(equity_curve', 1, Len(equity_curve)) = equity_curve
        /\ LET p == equity_curve'[Len(equity_curve')]
           IN  \/ /\ pc = "apply_fills" /\ applied' = applied + 1
                  /\ p.ts = Head(fills_todo).ts
               \/ /\ pc = "mark" /\ bar_count % MarkPeriod = 0
                  /\ p.ts = bar.ts
               \/ /\ pc = "finalize" /\ pc' = "done"

\* every applied fill and every MarkPeriod-th bar does append its point
C33_Appends ==
    /\ applied' = applied + 1 => Len(equity_curve') = Len(equity_curve) + 1
    /\ (pc = "mark" /\ pc' # "mark" /\ bar_count % MarkPeriod = 0)
           => Len(equity_curve') = Len(equity_curve) + 1
    /\ (pc = "finalize" /\ pc' = "done") => Len(equity_curve') = Len(equity_curve) + 1

C33_Completed ==
    pc = "done" =>
        /\ Len(equity_curve) = applied + (bar_count \div MarkPeriod) + 1
        /\ applied = Len(broker.fills)
        /\ results.equity_curve = equity_curve
        /\ results.bars_processed = bar_count

\* C33: during a run an equity point is appended only per applied fill (at
\* the fill's timestamp), after every MarkPeriod-th bar (at the bar's
\* timestamp; the period is 100 in the source) and at finalization; a
\* completed run has exactly fills + floor(bars_processed / period) + 1
\* points, and no point is ever removed or changed.
C33_EquityPoints == []C33_Completed /\ [][C33_Step /\ C33_Appends]_vars

\* a completed run with a fill, a periodic mark and the final mark
C33_Witness ==
    /\ pc = "done" /\ applied >= 1 /\ bar_count >= MarkPeriod
    /\ Len(equity_curve) = applied + 2

\* the ids of the orders the recorder has seen, in the order it saw them
RecordedOrderIds == [k \in 1..Len(recorder.orders) |-> recorder.orders[k].id]

\* the recorder holds the accepted orders in submission order (the runner's
\* ids grow with submission) and no order the broker refused
C34_Orders ==
    /\ {RecordedOrderIds[k] : k \in 1..Len(recorder.orders)} = DOMAIN broker.orders
    /\ \A j, k \in 1..Len(recorder.orders) : j < k => RecordedOrderIds[j] < RecordedOrderIds[k]
    /\ \A k \in 1..Len(recorder.orders) : recorder.orders[k].status # "rejected"

C34_OrdersAndFills == pc = "done" => (C34_Orders /\ recorder.fills = broker.fills)

\* C34: after a completed run the recorder's audit trail contains every
\* accepted order in submission order and no rejected one, every fill in the
\* order the broker produced them, and every equity point appended to the
\* portfolio manager's equity curve.
C34_AuditTrail ==
    pc = "done" =>
        /\ C34_Orders
        /\ recorder.fills = broker.fills
        /\ recorder.equity_points = equity_curve

\* ------------------------------------------------ the SMA strategy's callers
\* SmaCrossStrategy(2, 3, 1) started on the universe {A} and given bars by a
\* caller whose Portfolio is flat, long 3 of A or short 2 of A after one
\* earlier fill
SmaEarlierFills ==
    {[order_id |-> 0, ts |-> 0, symbol |-> "A", side |-> fl[1], qty |-> fl[2],
      price |-> R(10), fee |-> Zero] : fl \in {<<"BUY", R(3)>>, <<"SELL", R(2)>>}}

SmaBarShapes ==
    {<<"A", c, c, c>> : c \in {R(9), R(10), R(11)}} \cup {<<"B", R(10), R(10), R(10)>>}

NewPortfolio == [cash |-> R(InitialCash), equity |-> R(InitialCash), positions |-> EmptyDict]

InitSmaAPI ==
    /\ portfolio \in {NewPortfolio} \cup {PortfolioApplyFill(NewPortfolio, f) : f \in SmaEarlierFills}
    /\ equity_curve = <<>>
    /\ trades = <<>>
    /\ open_trades = <<>>
    /\ call = [op |-> "none", fill |-> NoFill, prices |-> EmptyDict, ts |-> NoneTs]
    /\ InitTools
    /\ InitBroker({<<"simulated", 0>>})
    /\ InitRunner
    /\ ncalls = 0
    /\ strategy = OnStart(SmaCross(2, 3, R(1)), {"A"})

\* a caller invokes strategy.on_bar(bar, state) with its next bar
CallSmaOnBar ==
    /\ ncalls < MaxSmaBars
    /\ \E shape \in SmaBarShapes :
          /\ bar' = BarOf(ncalls + 1, shape)
          /\ LET r == SmaOnBar(strategy, bar', portfolio.positions, next_id)
             IN  /\ strategy' = r.strategy
                 /\ orders_todo' = r.orders
                 /\ next_id' = r.next_id
                 /\ portfolio' = [portfolio EXCEPT !.positions = r.positions]
    /\ ticks' = Append(ticks, [op |-> "on_bar", bar |-> bar'])
    /\ ncalls' = ncalls + 1
    /\ UNCHANGED <<equity_curve, trades, open_trades, call, brokerVars, xcall, mcurve,
                   reports, mcall, clock, runs, universe, pc, running, bar_count,
                   current_prices, fills_todo, recorder, results, results2, feed_ts, steps,
                   born, filled_at, applied>>

NextSma == CallSmaOnBar

SpecSma == InitSmaAPI /\ [][NextSma]_vars

\* ------------------------------------------------ strategy claims, continued
\* the closes of the bars of the symbol of the call's bar, that bar included
StepCloses ==
    LET OfSymbol(t) == t.bar.symbol = bar'.symbol
        hits == SelectSeq(ticks', OfSymbol)
    IN  [k \in 1..Len(hits) |-> hits[k].bar.close]

\* the mean of the last n of them
StepMa(n) == Mean(SubSeq(StepCloses, Len(StepCloses) - n + 1, Len(StepCloses)))

\* the fast/slow signal on the call's bar
StepSignal == IF RLt(StepMa(strategy.slow), StepMa(strategy.fast)) THEN 1 ELSE -1

\* the quantity held of the bar's symbol when on_bar is called
StepQty ==
    IF bar'.symbol \in DOMAIN portfolio.positions
    THEN portfolio.positions[bar'.symbol].qty ELSE Zero

StepMarketOrder(side, qty) ==
    /\ Len(orders_todo') = 1
    /\ orders_todo'[1].side = side /\ orders_todo'[1].qty = qty
    /\ orders_todo'[1].type = "market" /\ orders_todo'[1].limit_price = NoneR
    /\ orders_todo'[1].symbol = bar'.symbol /\ orders_todo'[1].ts = bar'.ts

C35_Step ==
    (ncalls' = ncalls + 1) =>
        LET sym == bar'.symbol
            warm == sym \in DOMAIN strategy.buffers /\ Len(StepCloses) >= strategy.slow
        IN  /\ Len(orders_todo') <= 1
            /\ ~warm => orders_todo' = <<>>
            /\ warm =>
                  /\ strategy'.prev_signal[sym] = StepSignal
                  /\ IF StepSignal = strategy.prev_signal[sym] THEN orders_todo' = <<>>
                     ELSE IF StepSignal = 1 /\ RLe(StepQty, Zero)
                     THEN StepMarketOrder("BUY", RAdd(RAbs(StepQty), strategy.position_size))
                     ELSE IF StepSignal = -1 /\ RLt(Zero, StepQty)
                     THEN StepMarketOrder("SELL", StepQty)
                     ELSE orders_todo' = <<>>
            /\ (sym \in DOMAIN strategy.buffers /\ ~warm) => strategy'.prev_signal[sym] = 0

C35_WitnessSell ==
    /\ ncalls = 4 /\ Len(orders_todo) = 1
    /\ orders_todo[1].side = "SELL" /\ orders_todo[1].qty = R(3)
    /\ strategy.prev_signal["A"] = -1

\* --------------------------------------------------- clock claims, continued
\* ticking a clock until it returns None: the bars returned
RECURSIVE Drain(_)
Drain(c) ==
    LET r == ClockTick(c)
    IN  IF r.bar = NoBar THEN <<>> ELSE <<r.bar>> \o Drain(r.clock)

\* a freshly constructed clock over the same per-symbol bars
FreshClock ==
    NewMultiSymbolClock([k \in 1..Len(clock.symbol_bars) |->
                            [clock.symbol_bars[k] EXCEPT !.pos = 0]])

\* the index of the last reset() in the history (0 when there is none)
LastResetIndex ==
    LET resets == {k \in 1..Len(ticks) : ticks[k].op = "reset"}
    IN  IF resets = {} THEN 0 ELSE CHOOSE k \in resets : \A j \in resets : j <= k

\* the bars returned by the ticks after the last reset()
BarsAfterLastReset ==
    LET IsBar(t) == t.op = "tick" /\ t.bar # NoBar
        hits == SelectSeq(SubSeq(ticks, LastResetIndex + 1, Len(ticks)), IsBar)
    IN  [k \in 1..Len(hits) |-> hits[k].bar]

\* reset() was called and the clock has since been ticked until None
ResetAndDrained ==
    /\ LastResetIndex > 0
    /\ LastTick.op = "tick" /\ LastTick.bar = NoBar

\* C36: after any number of tick() calls, reset() and then ticking until None
\* yields exactly the bar sequence of a freshly constructed clock over the
\* same data: no bar is lost and none is repeated.
C36_ResetReplays == ResetAndDrained => BarsAfterLastReset = Drain(FreshClock)

\* what the code does: after reset() the clock goes on from where the
\* iterators stand, without the bars that were buffered
C36_ResetContinues ==
    [][(Len(ticks') = Len(ticks) + 1 /\ ticks'[Len(ticks')].op = "reset")
          => /\ clock'.symbol_bars = clock.symbol_bars
             /\ clock'.buffers = <<>>]_vars

\* the runner's call of strategy.on_bar
IsOnBarStep == pc = "on_bar" /\ pc' # "on_bar"

C37_Step == IsOnBarStep => portfolio' = portfolio

C37_NonZeroPositions ==
    \A sym \in DOMAIN portfolio.positions : portfolio.positions[sym].qty # Zero

\* C37: the reference strategies never mutate the portfolio: on_bar leaves
\* cash, equity and the symbol-to-position map unchanged, so the map holds
\* only positions of non-zero quantity.
C37_StrategyReadsOnly == []C37_NonZeroPositions /\ [][C37_Step]_vars

\* what the code does: on_bar changes nothing but the position map, and
\* there only by adding the bar's symbol with a new, empty Position
C37_OnBarAddsEmptyPosition ==
    [][IsOnBarStep =>
          /\ portfolio'.cash = portfolio.cash /\ portfolio'.equity = portfolio.equity
          /\ \/ portfolio'.positions = portfolio.positions
             \/ /\ bar.symbol \notin DOMAIN portfolio.positions
                /\ portfolio'.positions =
                       DictPut(portfolio.positions, bar.symbol, NewPosition(bar.symbol))]_vars

\* ------------------------------------------------------ the order lifecycle
C38_State ==
    /\ \A k \in 1..Len(broker.pending_orders) :
           /\ broker.pending_orders[k].id \in DOMAIN broker.orders
           /\ \A j \in 1..Len(broker.pending_orders) :
                  broker.pending_orders[j].id = broker.pending_orders[k].id => j = k
    /\ \A id \in DOMAIN broker.orders :
           /\ IsPendingIn(broker, id) <=> broker.orders[id].status = "pending"
           /\ broker.orders[id].status \in {"pending", "filled", "cancelled"}

C38_Step ==
    \A id \in DOMAIN broker.orders :
        /\ id \in DOMAIN broker'.orders
        /\ broker'.orders[id] = [broker.orders[id] EXCEPT !.status = broker'.orders[id].status]
        /\ broker'.orders[id].status # broker.orders[id].status =>
               /\ broker.orders[id].status = "pending"
               /\ broker'.orders[id].status \in {"filled", "cancelled"}
               /\ broker'.orders[id].status = "filled" <=> bcall'.op = "process_bar"
               /\ broker'.orders[id].status = "cancelled" <=> bcall'.op = "cancel_order"

\* C38: under any interleaving of submit_order, process_bar and cancel_order
\* on a SimulatedBroker or a PaperBroker, every pending order is a known
\* order, an accepted order is pending exactly while its status is PENDING,
\* the only status changes are PENDING -> FILLED and PENDING -> CANCELLED,
\* FILLED and CANCELLED are final, and PARTIAL is never assigned.
C38_OrderLifecycle == []C38_State /\ [][C38_Step]_vars

\* one order has been filled and another cancelled
C38_Witness ==
    /\ \E id \in DOMAIN broker.orders : broker.orders[id].status = "filled"
    /\ \E id \in DOMAIN broker.orders : broker.orders[id].status = "cancelled"

\* a filled order was submitted again and refused
C38_WitnessResubmit ==
    /\ bcall.op = "submit_order" /\ ~bcall.ret
    /\ bcall.id \in DOMAIN broker.orders
    /\ broker.orders[bcall.id].status = "filled"

\* ------------------------------------------- portfolio manager claims, continued
\* every call so far appended an equity point, which close_all_positions
\* does not do: the calls were apply_fill (and mark_to_market, which only
\* revalues the equity)
NoCloseAllSoFar == ncalls = Len(equity_curve)

FlatAfterFills ==
    /\ NoCloseAllSoFar
    /\ call.op = "apply_fill"
    /\ DOMAIN portfolio.positions = {}

\* C39: after any sequence of apply_fill calls that ends with no position in
\* any symbol there is no open trade, and the sum of pnl over the closed
\* trades equals cash minus the initial cash.
C39_RealizedPnl ==
    FlatAfterFills =>
        /\ open_trades = <<>>
        /\ SumPnl(trades) = RSub(portfolio.cash, R(InitialCash))

\* the first half alone: a flat portfolio has no open trade
C39_NoOpenTradeWhenFlat == FlatAfterFills => open_trades = <<>>

\* the second half alone
C39_PnlIsCashChange ==
    FlatAfterFills => SumPnl(trades) = RSub(portfolio.cash, R(InitialCash))

\* the second half where the first holds
C39_PnlIsCashChangeNoOpenTrade ==
    (FlatAfterFills /\ open_trades = <<>>)
        => SumPnl(trades) = RSub(portfolio.cash, R(InitialCash))

C40_Step == IsCloseAllStep => (portfolio' = portfolio /\ equity_curve' = equity_curve)

C40_RunEnd ==
    [][(pc = "finalize" /\ pc' = "done")
          => /\ portfolio'.positions = portfolio.positions
             /\ portfolio'.cash = portfolio.cash
             /\ results'.final_cash = portfolio.cash]_vars

=============================================================================
